---- MODULE Spec2Model ----
(***************************************************************************)
(* Model of the cluster-backup-operator control loops: the BackupSchedule  *)
(* reconciler (schedule_controller.go, schedule.go) and the Restore        *)
(* reconciler with its backup selection (restore_controller.go).           *)
(***************************************************************************)
EXTENDS Integers, Sequences, FiniteSets, TLC

VARIABLES
    backupSchedules,  \* name -> BackupSchedule object held by the API server
    veleroSchedules,  \* set of velero Schedule objects in the namespace
    cycle,            \* outcome of the last BackupSchedule Reconcile call
    coll,             \* last call of scheduleOwnsLatestStorageBackups
    sel,              \* last call of getVeleroBackupName
    acmRestore,       \* the Restore object held by the API server
    veleroRestores,   \* set of velero Restore objects in the namespace
    veleroBackups,    \* velero Backups of the namespace, in listing order
    rcycle,           \* outcome of the last Restore Reconcile call
    call              \* last call of a helper of the Restore reconciler

restoreVars == <<acmRestore, veleroRestores, veleroBackups, rcycle, call>>

vars == <<backupSchedules, veleroSchedules, cycle, coll, sel, acmRestore,
          veleroRestores, veleroBackups, rcycle, call>>

(***************************************************************************)
(* Bounds of the model                                                     *)
(***************************************************************************)
\* largest TTL, in seconds, a BackupSchedule spec takes
MaxTTLSeconds == 1
\* spec.maxBackups of the BackupSchedule
SpecMaxBackups == 2
\* longest backup listing handed to the collision check / the selection
MaxBackupList == 3
\* largest start timestamp (seconds) of a backup
MaxTime == 2
\* largest error count of a backup
MaxErrors == 1

(***************************************************************************)
(* Program constants                                                       *)
(***************************************************************************)
ManagedClusters == "managedClusters"
Credentials == "credentials"
Resources == "resources"
ValidationSchedule == "validation"

ResourceTypes == {ManagedClusters, Credentials, Resources}

\* mapping ResourceTypes to Velero schedule names
resourceTypes ==
    [t \in ResourceTypes |->
        CASE t = ManagedClusters -> "acm-managed-clusters-schedule"
          [] t = Credentials -> "acm-credentials-schedule"
          [] t = Resources -> "acm-resources-schedule"]

\* the schedule-name table schedule.go and restore_controller.go read: the
\* three categories of resourceTypes plus the validation schedule
veleroScheduleNames ==
    [t \in ResourceTypes \cup {ValidationSchedule} |->
        IF t = ValidationSchedule THEN "acm-validation-policy-schedule"
        ELSE resourceTypes[t]]

\* requeue interval, in minutes
deleteBackupRequeueInterval == 60

\* milliseconds in time.Second
Second == 1000

FailedPhaseMsg == "Velero schedules initialization failed"
NewPhaseMsg == "Velero schedules are initialized"
EnabledPhaseMsg == "Velero schedules are enabled"
UnknownPhaseMsg ==
    "Some Velero schedules are not enabled. "
    \o "If the status doesn't change check the velero pod is running and "
    \o "that you have created a Velero resource as documented in the install guide."
\* the format string; the collision check fills in the backup and the clusters
BackupCollisionPhaseMsg ==
    "Backup %s, from cluster with id [%s] is using the same storage location."
    \o " This is a backup collision with current cluster [%s] backup."
    \o " Review and resolve the collision then create a new BackupSchedule resource to "
    \o " resume backups from this cluster."

SchedulePhaseNew == "New"
SchedulePhaseFailedValidation == "FailedValidation"
SchedulePhaseFailed == "Failed"
SchedulePhaseUnknown == "Unknown"
SchedulePhaseEnabled == "Enabled"
SchedulePhaseBackupCollision == "BackupCollision"

\* phases the engine reports on a velero Schedule ("" = none reported yet)
VeleroSchedulePhases == {"", "New", "Enabled", "FailedValidation"}

\* a nil status reference
Nil == "<nil>"

(***************************************************************************)
(* Value sets                                                              *)
(***************************************************************************)
ValidCrons == {"0 * * * *", "0 */6 * * *"}
CronExprs == {"", "invalid", "TZ=UTC"} \cup ValidCrons

\* durations in milliseconds: zero and whole seconds
TTLs == {0} \cup {Second * k : k \in 1..MaxTTLSeconds}


(***************************************************************************)
(* Helpers                                                                 *)
(***************************************************************************)
HasPrefix(s, p) == Len(s) >= Len(p) /\ SubSeq(s, 1, Len(p)) = p

Contains(s, sub) ==
    \E i \in 1..(Len(s) - Len(sub) + 1) : SubSeq(s, i, i + Len(sub) - 1) = sub

\* strings.Fields: the number of space-separated fields of s
RECURSIVE Fields(_)
Fields(s) ==
    IF Len(s) = 0 THEN 0
    ELSE LET sp == {i \in 1..Len(s) : SubSeq(s, i, i) = " "} IN
         IF sp = {} THEN 1
         ELSE LET first == CHOOSE i \in sp : \A j \in sp : i <= j IN
              (IF first = 1 THEN 0 ELSE 1) + Fields(SubSeq(s, first + 1, Len(s)))

\* strings.Join
RECURSIVE Join(_, _)
Join(strs, sep) ==
    IF Len(strs) = 0 THEN ""
    ELSE IF Len(strs) = 1 THEN strs[1]
    ELSE strs[1] \o sep \o Join(Tail(strs), sep)

\* time.Duration.Truncate for non-negative durations
Truncate(d, m) == d - (d % m)

\* the elements of a slice
Range(s) == {s[i] : i \in DOMAIN s}

\* every ordering of the elements of S
RECURSIVE Perms(_)
Perms(S) ==
    IF S = {} THEN {<<>>}
    ELSE UNION {{<<x>> \o p : p \in Perms(S \ {x})} : x \in S}


(***************************************************************************)
(* schedule.go                                                             *)
(***************************************************************************)
\* cron.ParseStandard of robfig/cron: returns a schedule, returns an error,
\* or panics (a "TZ=" prefix with no space slices out of range)
cronParse(spec) ==
    IF Len(spec) = 0 THEN [kind |-> "err", text |-> "empty spec string"]
    ELSE IF HasPrefix(spec, "TZ=") /\ ~Contains(spec, " ")
    THEN [kind |-> "panic", text |-> "slice bounds out of range"]
    ELSE IF Fields(spec) # 5
    THEN [kind |-> "err", text |-> "expected exactly 5 fields"]
    ELSE [kind |-> "ok", text |-> ""]

cronParseTable[spec \in CronExprs] == cronParse(spec)

cronParseStandard(spec) == cronParseTable[spec]

\* without the recover() around the parse a panic reports no validation error
parseCronScheduleNoRecover(spec) ==
    IF Len(spec) = 0
    THEN <<"Schedule must be a non-empty valid Cron expression">>
    ELSE LET r == cronParseStandard(spec) IN
         IF r.kind = "err" THEN <<"invalid schedule: " \o r.text>>
         ELSE <<>>

\* the recover() appends what it logs instead of the formatted panic
parseCronSchedulePanicLogged(spec) ==
    IF Len(spec) = 0
    THEN <<"Schedule must be a non-empty valid Cron expression">>
    ELSE LET r == cronParseStandard(spec) IN
         IF r.kind = "panic" THEN <<"Panic parsing schedule">>
         ELSE IF r.kind = "err" THEN <<"invalid schedule: " \o r.text>>
         ELSE <<>>

\* the validation errors of a BackupSchedule's cron expression
parseCronSchedule(spec) ==
    IF Len(spec) = 0
    THEN <<"Schedule must be a non-empty valid Cron expression">>
    ELSE LET r == cronParseStandard(spec) IN
         IF r.kind = "panic" THEN <<"invalid schedule: " \o r.text>>
         ELSE IF r.kind = "err" THEN <<"invalid schedule: " \o r.text>>
         ELSE <<>>

\* the copy of the velero Schedule kept in the status is represented by the
\* name of the schedule copied
setVeleroScheduleInStatus(resourceType, veleroSchedule, status) ==
    CASE resourceType = ManagedClusters ->
            [status EXCEPT !.veleroScheduleManagedClusters = veleroSchedule.name]
      [] resourceType = Credentials ->
            [status EXCEPT !.veleroScheduleCredentials = veleroSchedule.name]
      [] resourceType = Resources ->
            [status EXCEPT !.veleroScheduleResources = veleroSchedule.name]
      [] OTHER -> status

\* at most one key of veleroScheduleNames carries a given name
updateScheduleStatus(veleroSchedule, status) ==
    LET keys == {k \in DOMAIN veleroScheduleNames :
                    veleroScheduleNames[k] = veleroSchedule.name} IN
    IF keys = {} THEN status
    ELSE setVeleroScheduleInStatus(CHOOSE k \in keys : TRUE, veleroSchedule, status)

RECURSIVE updateScheduleStatusAll(_, _)
updateScheduleStatusAll(items, status) ==
    IF Len(items) = 0 THEN status
    ELSE updateScheduleStatusAll(Tail(items), updateScheduleStatus(Head(items), status))

\* the loop of setSchedulePhase: the first listed schedule that has an empty,
\* New or FailedValidation phase decides
RECURSIVE schedulePhaseLoop(_, _)
schedulePhaseLoop(items, status) ==
    IF Len(items) = 0
    THEN [status EXCEPT !.phase = SchedulePhaseEnabled, !.lastMessage = EnabledPhaseMsg]
    ELSE LET p == Head(items).phase IN
         IF p = ""
         THEN [status EXCEPT !.phase = SchedulePhaseUnknown, !.lastMessage = UnknownPhaseMsg]
         ELSE IF p = "New"
         THEN [status EXCEPT !.phase = SchedulePhaseNew, !.lastMessage = NewPhaseMsg]
         ELSE IF p = "FailedValidation"
         THEN [status EXCEPT !.phase = SchedulePhaseFailedValidation,
                             !.lastMessage = FailedPhaseMsg]
         ELSE schedulePhaseLoop(Tail(items), status)

\* the phase New is left like the phase BackupCollision
setSchedulePhaseKeepsNew(items, status) ==
    IF status.phase \in {SchedulePhaseBackupCollision, SchedulePhaseNew} THEN status
    ELSE IF Len(items) <= 0
    THEN [status EXCEPT !.phase = SchedulePhaseNew, !.lastMessage = NewPhaseMsg]
    ELSE schedulePhaseLoop(items, status)

\* set cumulative status of schedules
setSchedulePhase(items, status) ==
    IF status.phase = SchedulePhaseBackupCollision THEN status
    ELSE IF Len(items) <= 0
    THEN [status EXCEPT !.phase = SchedulePhaseNew, !.lastMessage = NewPhaseMsg]
    ELSE schedulePhaseLoop(items, status)

\* the TTL of the validation schedule is compared like that of the others
isScheduleSpecUpdatedAllTTL(items, spec) ==
    \E i \in DOMAIN items :
        \/ items[i].ttl # spec.veleroTTL
        \/ items[i].schedule # spec.veleroSchedule

\* a change of the cron expression is not seen
isScheduleSpecUpdatedTTLOnly(items, spec) ==
    \E i \in DOMAIN items :
        /\ items[i].name # veleroScheduleNames[ValidationSchedule]
        /\ items[i].ttl # spec.veleroTTL

isScheduleSpecUpdated(items, spec) ==
    IF Len(items) <= 0 THEN FALSE
    ELSE \E i \in DOMAIN items :
            \/ /\ items[i].name # veleroScheduleNames[ValidationSchedule]
               /\ items[i].ttl # spec.veleroTTL
            \/ items[i].schedule # spec.veleroSchedule

(***************************************************************************)
(* The API server                                                          *)
(***************************************************************************)
\* client.Create of a velero Schedule: AlreadyExists when the namespace holds
\* an object of that name, a transient failure when fail is TRUE
apiCreate(store, obj, fail) ==
    IF fail \/ \E o \in store : o.name = obj.name
    THEN [store |-> store, err |-> "create failed"]
    ELSE [store |-> store \cup {obj}, err |-> ""]

\* client.Delete of a velero Schedule
apiDelete(store, obj, fail) ==
    IF fail THEN [store |-> store, err |-> "delete failed"]
    ELSE [store |-> {o \in store : o.name # obj.name}, err |-> ""]

\* the velero Schedules indexed under scheduleOwnerKey for the owner name
ownedBy(store, owner) == {o \in store : o.owner = owner}

(***************************************************************************)
(* schedule_controller.go                                                  *)
(***************************************************************************)
\* the built schedule does not get the cron expression of the spec
newVeleroScheduleNoCron(key, bsName, spec) ==
    [name |-> resourceTypes[key], owner |-> bsName, schedule |-> "",
     ttl |-> IF Truncate(spec.veleroTTL, Second) # 0 THEN spec.veleroTTL ELSE 0,
     phase |-> ""]

\* every schedule is named after the resources schedule and its type
newVeleroScheduleWrongName(key, bsName, spec) ==
    [name |-> resourceTypes[Resources] \o "-" \o key, owner |-> bsName,
     schedule |-> spec.veleroSchedule,
     ttl |-> IF Truncate(spec.veleroTTL, Second) # 0 THEN spec.veleroTTL ELSE 0,
     phase |-> ""]

\* the resources schedule is built hourly whatever the spec
newVeleroScheduleHourlyResources(key, bsName, spec) ==
    [name |-> resourceTypes[key], owner |-> bsName,
     schedule |-> IF key = Resources THEN "0 * * * *" ELSE spec.veleroSchedule,
     ttl |-> IF Truncate(spec.veleroTTL, Second) # 0 THEN spec.veleroTTL ELSE 0,
     phase |-> ""]

\* the velero Schedule initVeleroSchedules builds for one resource type
newVeleroSchedule(key, bsName, spec) ==
    [name |-> resourceTypes[key], owner |-> bsName,
     schedule |-> spec.veleroSchedule,
     ttl |-> IF Truncate(spec.veleroTTL, Second) # 0 THEN spec.veleroTTL ELSE 0,
     phase |-> ""]

\* the loop of initVeleroSchedules over resourceTypes, in map order `order`;
\* the failAt-th Create fails transiently (0: none does)
RECURSIVE initLoop(_, _, _, _, _, _, _)
initLoop(order, i, failAt, bsName, spec, store, status) ==
    IF i > Len(order)
    THEN [store |-> store, status |-> status, err |-> "", done |-> i - 1]
    ELSE LET veleroSchedule == newVeleroSchedule(order[i], bsName, spec)
             r == apiCreate(store, veleroSchedule, i = failAt)
         IN IF r.err # ""
            THEN [store |-> store, status |-> status, err |-> r.err, done |-> i - 1]
            ELSE initLoop(order, i + 1, failAt, bsName, spec, r.store,
                          setVeleroScheduleInStatus(order[i], veleroSchedule, status))

\* create velero.io.Schedule resource for each resource type that needs backup
initVeleroSchedules(order, failAt, bsName, obj, store) ==
    initLoop(order, 1, failAt, bsName, obj.spec, store, obj.status)

RECURSIVE deleteLoop(_, _, _, _)
deleteLoop(items, i, failAt, store) ==
    IF i > Len(items) THEN [store |-> store, err |-> "", done |-> i - 1]
    ELSE LET r == apiDelete(store, items[i], i = failAt) IN
         IF r.err # "" THEN [store |-> store, err |-> r.err, done |-> i - 1]
         ELSE deleteLoop(items, i + 1, failAt, r.store)

\* the drifted schedules are rewritten with the desired spec, none is deleted
deleteVeleroSchedulesUpdateInPlace(items, failAt, obj, store) ==
    [store |-> {IF \E i \in DOMAIN items : items[i].name = o.name
                THEN [o EXCEPT !.schedule = obj.spec.veleroSchedule,
                               !.ttl = obj.spec.veleroTTL]
                ELSE o : o \in store},
     status |-> [obj.status EXCEPT !.phase = SchedulePhaseNew,
                                   !.lastMessage = NewPhaseMsg],
     err |-> "", done |-> 0]

\* delete all velero schedules owned by this BackupSchedule
deleteVeleroSchedules(items, failAt, obj, store) ==
    IF Len(items) <= 0
    THEN [store |-> store, status |-> obj.status, err |-> "", done |-> 0]
    ELSE LET r == deleteLoop(items, 1, failAt, store) IN
         IF r.err # ""
         THEN [store |-> r.store, status |-> obj.status, err |-> r.err, done |-> r.done]
         ELSE [store |-> r.store,
               status |-> [obj.status EXCEPT !.phase = SchedulePhaseNew,
                                             !.lastMessage = NewPhaseMsg,
                                             !.veleroScheduleCredentials = Nil,
                                             !.veleroScheduleManagedClusters = Nil,
                                             !.veleroScheduleResources = Nil],
               err |-> "", done |-> r.done]

\* r.Client.Status().Update wrapped by errors.Wrap: nil stays nil
\* wrapping the nil error of a successful status write gives an error
statusUpdateErrWrapsNil(updateOk) == "could not update status"

statusUpdateErr(updateOk) == IF updateOk THEN "" ELSE "could not update status"

\* the API calls of a run that failed, and how many Create and Delete calls
\* succeeded
NoCalls == [failed |-> {}, created |-> 0, deleted |-> 0]

\* One run of Reconcile for the BackupSchedule bsName, as a function of the
\* stored object, the stored schedules and the outcome of each API call:
\*   getOk, listOk, updateOk  whether Get, List and Status().Update succeed
\*   items                    the owned schedules in the order List returns them
\*   order                    the iteration order of the resourceTypes map
\*   failAt                   which Create or Delete call fails (0: none)
\* The result gives the schedules (store) and the in-memory status at return,
\* whether that status was persisted (wrote), the ctrl.Result (requeueAfter,
\* minutes) and the error returned, the limits cleanupBackups was called
\* with, and the API calls made (calls).
\* the failure of the List is recorded as the phase and written
listFailedSetsPhase(base) ==
    [base EXCEPT !.branch = "list", !.err = "list failed",
         !.status = [base.status EXCEPT !.phase = SchedulePhaseFailed,
                                        !.lastMessage = "list failed"],
         !.wrote = TRUE,
         !.calls = [NoCalls EXCEPT !.failed = {"list"}]]

\* the return of Reconcile when the List of the owned velero Schedules fails
listFailed(base) ==
    [base EXCEPT !.branch = "list", !.err = "list failed",
         !.calls = [NoCalls EXCEPT !.failed = {"list"}]]

reconcileRun(bsName, obj, store, getOk, listOk, updateOk, items, order, failAt) ==
    LET base == [name |-> bsName, branch |-> "get",
                 requeueAfter |-> 0, err |-> "get failed", wrote |-> FALSE,
                 status |-> obj.status, store |-> store, cleanup |-> <<>>,
                 calls |-> [NoCalls EXCEPT !.failed = {"get"}]]
        errs == parseCronSchedule(obj.spec.veleroSchedule)
        upd == IF updateOk THEN {} ELSE {"update"}
    IN
    IF ~getOk THEN base
    ELSE IF Len(errs) > 0
    THEN [base EXCEPT !.branch = "validation",
              !.status = [obj.status EXCEPT !.phase = SchedulePhaseFailedValidation,
                                            !.lastMessage = Join(errs, ",")],
              !.calls = [NoCalls EXCEPT !.failed = upd],
              !.err = statusUpdateErr(updateOk), !.wrote = updateOk]
    ELSE IF ~listOk THEN listFailed(base)
    ELSE IF Len(items) = 0
    THEN LET r == initVeleroSchedules(order, failAt, bsName, obj, store) IN
         [base EXCEPT !.branch = "init", !.store = r.store,
              !.status = IF r.err # ""
                         THEN [r.status EXCEPT !.lastMessage = FailedPhaseMsg \o ": " \o r.err,
                                               !.phase = SchedulePhaseFailed]
                         ELSE [r.status EXCEPT !.lastMessage = NewPhaseMsg,
                                               !.phase = SchedulePhaseNew],
              !.calls = [failed |-> upd \cup (IF r.err # "" THEN {"create"} ELSE {}),
                         created |-> r.done, deleted |-> 0],
              !.requeueAfter = deleteBackupRequeueInterval,
              !.err = statusUpdateErr(updateOk), !.wrote = updateOk]
    ELSE IF isScheduleSpecUpdated(items, obj.spec)
    THEN LET r == deleteVeleroSchedules(items, failAt, obj, store) IN
         IF r.err # ""
         THEN [base EXCEPT !.branch = "drift", !.store = r.store, !.err = r.err,
                   !.calls = [failed |-> {"delete"}, created |-> 0, deleted |-> r.done]]
         ELSE [base EXCEPT !.branch = "drift", !.store = r.store,
                   !.status = r.status,
                   !.calls = [failed |-> upd, created |-> 0, deleted |-> r.done],
                   !.requeueAfter = deleteBackupRequeueInterval,
                   !.err = statusUpdateErr(updateOk), !.wrote = updateOk]
    ELSE [base EXCEPT !.branch = "steady",
              !.status = setSchedulePhase(items, updateScheduleStatusAll(items, obj.status)),
              !.cleanup = <<obj.spec.maxBackups * Cardinality(DOMAIN resourceTypes)>>,
              !.calls = [NoCalls EXCEPT !.failed = upd],
              !.requeueAfter = deleteBackupRequeueInterval,
              !.err = statusUpdateErr(updateOk), !.wrote = updateOk]

(***************************************************************************)
(* schedule.go: storage collision                                          *)
(***************************************************************************)
\* Status.StartTimestamp is a pointer: <<>> when nil, <<t>> when set
timeUnix(bkp) == IF bkp.start = <<>> THEN 0 ELSE bkp.start[1]

\* the BackupScheduleClusterLabel of a velero Schedule ("" when it has none)
clusterLabel(veleroSchedule) ==
    IF "cluster" \in DOMAIN veleroSchedule THEN veleroSchedule.cluster ELSE ""

\* the backups the filter accepts, in their order; `accepted` is the set of
\* backups the filter function returns true for
filterBackups(backups, accepted) == SelectSeq(backups, LAMBDA bkp : bkp \in accepted)

swap(s, i, j) == [s EXCEPT ![i] = s[j], ![j] = s[i]]

\* sort.Slice by start time: for slices this short an insertion sort
RECURSIVE insertByTime(_, _)
insertByTime(s, j) ==
    IF j > 1 /\ timeUnix(s[j]) < timeUnix(s[j - 1])
    THEN insertByTime(swap(s, j, j - 1), j - 1)
    ELSE s

RECURSIVE sortByTimeFrom(_, _)
sortByTimeFrom(s, i) ==
    IF i > Len(s) THEN s ELSE sortByTimeFrom(insertByTime(s, i), i + 1)

sortByTime(s) == sortByTimeFrom(s, 2)

\* the backups in the Deleting phase are not filtered out
scheduleOwnsLatestStorageBackupsKeepDeleting(listOk, allBackups, veleroSchedule) ==
    LET backups == SelectSeq(allBackups,
                       LAMBDA b : b.schedule = veleroScheduleNames[Resources])
        sliceBackups == sortByTime(backups)
    IN IF ~listOk \/ Len(sliceBackups) = 0 THEN [owner |-> TRUE, backup |-> <<>>]
       ELSE IF sliceBackups[Len(sliceBackups)].cluster # clusterLabel(veleroSchedule)
       THEN [owner |-> FALSE, backup |-> <<sliceBackups[Len(sliceBackups)]>>]
       ELSE [owner |-> TRUE, backup |-> <<>>]

\* returns true if this schedule has generated the latest backups in the
\* storage location; allBackups is every velero Backup, in listing order
scheduleOwnsLatestStorageBackups(listOk, allBackups, veleroSchedule) ==
    IF ~listOk THEN [owner |-> TRUE, backup |-> <<>>]
    ELSE LET backups == SelectSeq(allBackups,
                            LAMBDA b : b.schedule = veleroScheduleNames[Resources])
             sliceBackups ==
                 sortByTime(filterBackups(backups,
                                {bkp \in Range(backups) : bkp.phase # "Deleting"}))
         IN IF Len(sliceBackups) = 0 THEN [owner |-> TRUE, backup |-> <<>>]
            ELSE LET lastBackup == sliceBackups[Len(sliceBackups)] IN
                 IF lastBackup.cluster # clusterLabel(veleroSchedule)
                 THEN [owner |-> FALSE, backup |-> <<lastBackup>>]
                 ELSE [owner |-> TRUE, backup |-> <<>>]

(***************************************************************************)
(* restore_controller.go: selection of the backup to restore               *)
(***************************************************************************)
\* metav1.Time.Before on two pointers: false when either is nil
Before(t, u) == t # <<>> /\ u # <<>> /\ t[1] < u[1]

\* mostRecentWithLessErrors.Less
Less(backups, i, j) ==
    IF backups[i].errors < backups[j].errors THEN TRUE
    ELSE IF backups[i].errors > backups[j].errors THEN FALSE
    ELSE Before(backups[j].start, backups[i].start)

\* sort.Sort: for slices of fewer than 12 elements an insertion sort
RECURSIVE insertLess(_, _)
insertLess(s, j) ==
    IF j > 1 /\ Less(s, j, j - 1)
    THEN insertLess(swap(s, j, j - 1), j - 1)
    ELSE s

RECURSIVE sortFrom(_, _)
sortFrom(s, i) ==
    IF i > Len(s) THEN s ELSE sortFrom(insertLess(s, i), i + 1)

sortSort(s) == sortFrom(s, 2)

\* a name that is not found falls back to the backups of the resource type
getVeleroBackupNameFallback(veleroBackupName, apiOk, items, resourceType) ==
    LET relatedBackups ==
            filterBackups(items,
                {bkp \in Range(items) :
                    Contains(bkp.name, veleroScheduleNames[resourceType])})
    IN IF /\ veleroBackupName # Nil /\ Len(veleroBackupName) > 0
          /\ apiOk /\ \E i \in DOMAIN items : items[i].name = veleroBackupName
       THEN [name |-> veleroBackupName, err |-> ""]
       ELSE IF ~apiOk THEN [name |-> "", err |-> "unable to list velero backups"]
       ELSE IF Len(relatedBackups) = 0 THEN [name |-> "", err |-> "no backups found"]
       ELSE [name |-> sortSort(relatedBackups)[1].name, err |-> ""]

\* getVeleroBackupName returns the name of velero backup will be restored;
\* veleroBackupName is the name the Restore gives for the resource type (Nil
\* when it gives none), items the velero Backups of the namespace in listing
\* order, apiOk whether the Get or List of the call succeeds
getVeleroBackupName(veleroBackupName, apiOk, items, resourceType) ==
    IF veleroBackupName # Nil /\ Len(veleroBackupName) > 0
    THEN IF apiOk /\ \E i \in DOMAIN items : items[i].name = veleroBackupName
         THEN [name |-> veleroBackupName, err |-> ""]
         ELSE [name |-> "", err |-> "cannot find " \o veleroBackupName \o " Velero Backup"]
    ELSE IF ~apiOk THEN [name |-> "", err |-> "unable to list velero backups"]
    ELSE IF Len(items) = 0 THEN [name |-> "", err |-> "no backups found"]
    ELSE LET relatedBackups ==
                 filterBackups(items,
                     {bkp \in Range(items) :
                         Contains(bkp.name, veleroScheduleNames[resourceType])})
         IN IF Len(relatedBackups) = 0 THEN [name |-> "", err |-> "no backups found"]
            ELSE [name |-> sortSort(relatedBackups)[1].name, err |-> ""]

(***************************************************************************)
(* restore_controller.go: the Restore reconciler                           *)
(***************************************************************************)
managedClusterImportInterval == 20 * Second

RestoreStarted == "RestoreStarted"
RestoreComplete == "RestoreComplete"
RestoreReasonStarted == "RestoreReasonStarted"
RestoreReasonRunning == "RestoreReasonRunning"
RestoreReasonFinished == "RestoreReasonFinished"
ConditionTrue == "True"
ConditionFalse == "False"

\* the phases velero reports for a Restore ("" before it sees it)
VeleroRestorePhases == {"", "New", "InProgress", "Completed", "Failed"}

\* a nil *veleroapi.Restore: a record without the fields of a velero Restore
NilVeleroRestore == [nil |-> TRUE]

\* a velero Restore is finished once velero has left it in a final phase
isVeleroRestoreFinished(veleroRestore) ==
    /\ veleroRestore # NilVeleroRestore
    /\ veleroRestore.phase \notin {"", "New", "InProgress"}

\* every velero Restore is running but a completed one
isVeleroRestoreRunningUnlessCompleted(veleroRestore) ==
    /\ veleroRestore # NilVeleroRestore
    /\ veleroRestore.phase # "Completed"

\* a velero Restore is running while velero has it New or InProgress
isVeleroRestoreRunning(veleroRestore) ==
    /\ veleroRestore # NilVeleroRestore
    /\ veleroRestore.phase \in {"New", "InProgress"}

\* apimeta.SetStatusCondition: one condition per type
SetStatusCondition(conditions, c) ==
    {x \in conditions : x.type # c.type} \cup {c}

\* the backup name the Restore spec gives for a resource type (Nil: none)
specBackupName(spec, resourceType) ==
    CASE resourceType = ManagedClusters -> spec.veleroManagedClustersBackupName
      [] resourceType = Credentials -> spec.veleroCredentialsBackupName
      [] resourceType = Resources -> spec.veleroResourcesBackupName
      [] OTHER -> Nil

\* the status field initVeleroRestores records the created restore in
setVeleroRestoreName(status, key, name) ==
    CASE key = ManagedClusters -> [status EXCEPT !.veleroManagedClustersRestoreName = name]
      [] key = Credentials -> [status EXCEPT !.veleroCredentialsRestoreName = name]
      [] key = Resources -> [status EXCEPT !.veleroResourcesRestoreName = name]
      [] OTHER -> status

\* the velero Restore initVeleroRestores builds; `key` records the resource
\* type it was built for and is read by no code
newVeleroRestore(restoreName, veleroBackupName, key) ==
    [name |-> restoreName \o "-" \o veleroBackupName, owner |-> restoreName,
     backupName |-> veleroBackupName, phase |-> "", key |-> key]

\* the loop returns the error of a selection instead of going on to the next
\* resource type
RECURSIVE initRestoresLoopReturnsSelectionError(_, _, _, _, _, _, _, _)
initRestoresLoopReturnsSelectionError(order, i, failAt, backupsOk, backups, obj, store, status) ==
    IF i > Len(order)
    THEN [store |-> store, status |-> status, err |-> "", skipped |-> {},
          failed |-> {}]
    ELSE LET key == order[i]
             sel0 == getVeleroBackupName(specBackupName(obj.spec, key), backupsOk,
                                         backups, key)
             veleroRestore == newVeleroRestore(obj.name, sel0.name, key)
             r == apiCreate(store, veleroRestore, i = failAt)
         IN IF sel0.err # "" \/ r.err # ""
            THEN [store |-> store, status |-> status, skipped |-> {},
                  err |-> IF sel0.err # "" THEN sel0.err ELSE r.err,
                  failed |-> IF sel0.err # "" THEN {} ELSE {"create"}]
            ELSE initRestoresLoopReturnsSelectionError(order, i + 1, failAt, backupsOk,
                    backups, obj, r.store,
                    setVeleroRestoreName(status, key, veleroRestore.name))

\* the loop of initVeleroRestores over veleroScheduleNames, in map order
\* `order`; the Get or List of every selection succeeds iff backupsOk, the
\* Create made for the failAt-th key fails transiently (0: none does)
RECURSIVE initRestoresLoop(_, _, _, _, _, _, _, _)
initRestoresLoop(order, i, failAt, backupsOk, backups, obj, store, status) ==
    IF i > Len(order)
    THEN [store |-> store, status |-> status, err |-> "", skipped |-> {},
          failed |-> {}]
    ELSE LET key == order[i]
             sel0 == getVeleroBackupName(specBackupName(obj.spec, key), backupsOk,
                                         backups, key)
         IN IF sel0.err # ""
            THEN LET rest == initRestoresLoop(order, i + 1, failAt, backupsOk, backups,
                                              obj, store, status)
                 IN [rest EXCEPT !.skipped = @ \cup {key}]
            ELSE LET veleroRestore == newVeleroRestore(obj.name, sel0.name, key)
                     r == apiCreate(store, veleroRestore, i = failAt)
                 IN IF r.err # ""
                    THEN [store |-> store, status |-> status, err |-> r.err,
                          skipped |-> {}, failed |-> {"create"}]
                    ELSE initRestoresLoop(order, i + 1, failAt, backupsOk, backups, obj,
                            r.store,
                            [setVeleroRestoreName(status, key, veleroRestore.name)
                               EXCEPT !.conditions = SetStatusCondition(@,
                                  [type |-> RestoreStarted, status |-> ConditionTrue,
                                   reason |-> RestoreReasonStarted,
                                   message |-> "Velero restore " \o veleroRestore.name
                                               \o " started"])])

\* create velero.io.Restore resource for each resource type
initVeleroRestores(order, failAt, backupsOk, backups, obj, store) ==
    initRestoresLoop(order, 1, failAt, backupsOk, backups, obj, store, obj.status)

\* the loop of Reconcile over the owned velero Restores, in listing order
RECURSIVE restoreConditionsLoop(_, _)
restoreConditionsLoop(items, conditions) ==
    IF Len(items) = 0 THEN conditions
    ELSE LET veleroRestore == Head(items) IN
         restoreConditionsLoop(Tail(items),
            IF isVeleroRestoreFinished(veleroRestore)
            THEN IF ~Contains(veleroRestore.name, veleroScheduleNames[ManagedClusters])
                 THEN SetStatusCondition(conditions,
                         [type |-> RestoreComplete, status |-> ConditionTrue,
                          reason |-> RestoreReasonFinished,
                          message |-> "Restore Complete " \o veleroRestore.name])
                 ELSE conditions
            ELSE IF isVeleroRestoreRunning(veleroRestore)
            THEN SetStatusCondition(conditions,
                    [type |-> RestoreStarted, status |-> ConditionTrue,
                     reason |-> RestoreReasonRunning,
                     message |-> "Velero Restore " \o veleroRestore.name \o " is running"])
            ELSE SetStatusCondition(conditions,
                    [type |-> RestoreStarted, status |-> ConditionFalse,
                     reason |-> RestoreReasonRunning,
                     message |-> "Velero Restore " \o veleroRestore.name \o " is running"]))

\* One RestoreReconciler.Reconcile of the Restore obj over the velero
\* Restores `store` and the velero Backups `backups` of its namespace:
\*   get                 "ok", "notfound" or "error": the outcome of Get
\*   listOk, updateOk    whether List and Status().Update succeed
\*   items               the owned velero Restores in the order List returns them
\*   order, failAt, backupsOk   as in initRestoresLoop
\* The result gives the velero Restores (store) and the in-memory status at
\* return, whether that status was persisted (wrote), the error returned, the
\* API calls that failed and the resource types left without a restore.
restoreReconcileRun(obj, store, backups, get, listOk, updateOk, items, order, failAt, backupsOk) ==
    LET base == [name |-> obj.name, backupsOk |-> backupsOk, branch |-> "get",
                 err |-> IF get = "error" THEN "get failed" ELSE "",
                 wrote |-> FALSE, status |-> obj.status, store |-> store,
                 failed |-> {"get"}, skipped |-> {}, requeueAfter |-> 0]
    IN
    IF get # "ok" THEN base
    ELSE IF ~listOk
    THEN [base EXCEPT !.branch = "list", !.err = "list failed", !.failed = {"list"}]
    ELSE IF Len(items) = 0
    THEN LET r == initVeleroRestores(order, failAt, backupsOk, backups, obj, store) IN
         IF r.err # ""
         THEN [base EXCEPT !.branch = "init", !.err = r.err, !.store = r.store,
                           !.failed = r.failed]
         ELSE [base EXCEPT !.branch = "init", !.store = r.store, !.status = r.status,
                           !.skipped = r.skipped,
                           !.failed = IF updateOk THEN {} ELSE {"update"},
                           !.err = statusUpdateErr(updateOk), !.wrote = updateOk]
    ELSE [base EXCEPT !.branch = "status",
              !.status = [obj.status EXCEPT
                             !.conditions = restoreConditionsLoop(items, @)],
              !.failed = IF updateOk THEN {} ELSE {"update"},
              !.err = statusUpdateErr(updateOk), !.wrote = updateOk]

(***************************************************************************)
(* State machine of the schedule orchestrator                              *)
(***************************************************************************)
NoCycle == [branch |-> "none"]
NoCall == [called |-> FALSE]

EmptyStatus ==
    [phase |-> "", lastMessage |-> "",
     veleroScheduleManagedClusters |-> Nil,
     veleroScheduleCredentials |-> Nil,
     veleroScheduleResources |-> Nil]

BackupScheduleSpecs(crons, ttls) ==
    [veleroSchedule : crons, veleroTTL : ttls, maxBackups : {SpecMaxBackups}]

\* no Restore has been created
InitNoRestore ==
    /\ acmRestore = Nil
    /\ veleroRestores = {}
    /\ veleroBackups = <<>>
    /\ rcycle = NoCycle
    /\ call = NoCall

\* one BackupSchedule, just created by an operator, and no velero Schedule yet
InitSchedule(crons, ttls) ==
    /\ backupSchedules \in
          [{"schedule-acm"} ->
              [spec : BackupScheduleSpecs(crons, ttls), status : {EmptyStatus}]]
    /\ veleroSchedules = {}
    /\ cycle = NoCycle
    /\ coll = NoCall
    /\ sel = NoCall
    /\ InitNoRestore

\* the outcomes of the API calls of one Reconcile that can tell one run from
\* another: <<getOk, listOk, updateOk, items, order, failAt>>.  Calls the run
\* does not reach are given one outcome: no Create or Delete is reached
\* unless the cron expression is valid, no Delete unless the owned schedules
\* drifted (isScheduleSpecUpdated does not depend on the listing order), and
\* no Status().Update after a failed Delete.
reconcileInputs(n) ==
    LET obj == backupSchedules[n]
        owned == ownedBy(veleroSchedules, n)
        valid == Len(parseCronSchedule(obj.spec.veleroSchedule)) = 0
        none == <<>>
    IN {<<FALSE, TRUE, TRUE, none, none, 0>>}
       \cup (IF valid THEN {<<TRUE, FALSE, TRUE, none, none, 0>>} ELSE {})
       \cup (IF ~valid THEN {<<TRUE, TRUE, u, none, none, 0>> : u \in BOOLEAN}
             ELSE IF owned = {}
             THEN {<<TRUE, TRUE, u, none, order, failAt>> :
                      u \in BOOLEAN, order \in Perms(ResourceTypes),
                      failAt \in 0..Cardinality(ResourceTypes)}
             ELSE IF isScheduleSpecUpdated(CHOOSE items \in Perms(owned) : TRUE, obj.spec)
             THEN {<<TRUE, TRUE, u, items, none, 0>> :
                      u \in BOOLEAN, items \in Perms(owned)}
                  \cup {<<TRUE, TRUE, TRUE, items, none, failAt>> :
                           items \in Perms(owned), failAt \in 1..Cardinality(owned)}
             ELSE {<<TRUE, TRUE, u, items, none, 0>> :
                      u \in BOOLEAN, items \in Perms(owned)})

\* BackupScheduleReconciler.Reconcile
ReconcileWith(n, inputs) ==
    \E c \in {reconcileRun(n, backupSchedules[n], veleroSchedules,
                           in[1], in[2], in[3], in[4], in[5], in[6]) :
                 in \in inputs} :
       /\ cycle' = [name |-> c.name, branch |-> c.branch,
                    requeueAfter |-> c.requeueAfter, err |-> c.err,
                    wrote |-> c.wrote, phase |-> c.status.phase,
                    lastMessage |-> c.status.lastMessage,
                    cleanup |-> c.cleanup, calls |-> c.calls]
       /\ veleroSchedules' = c.store
       /\ backupSchedules' =
             [backupSchedules EXCEPT ![n].status = IF c.wrote THEN c.status ELSE @]
       /\ UNCHANGED <<coll, sel, restoreVars>>

Reconcile(n) == ReconcileWith(n, reconcileInputs(n))

\* a Reconcile all of whose API calls succeed
ReconcileOk(n) ==
    ReconcileWith(n, {in \in reconcileInputs(n) : in[1] /\ in[2] /\ in[3] /\ in[6] = 0})

\* a Reconcile in which a Create fails and every other call succeeds
ReconcileCreateFails(n) ==
    /\ ownedBy(veleroSchedules, n) = {}
    /\ ReconcileWith(n, {in \in reconcileInputs(n) :
                            in[1] /\ in[2] /\ in[3] /\ in[6] > 0})

\* an operator edits the cron expression of the BackupSchedule
EditCron(n, crons) ==
    /\ \E c \in crons \ {backupSchedules[n].spec.veleroSchedule} :
          backupSchedules' = [backupSchedules EXCEPT ![n].spec.veleroSchedule = c]
    /\ cycle' = NoCycle
    /\ UNCHANGED <<veleroSchedules, coll, sel, restoreVars>>

\* an operator edits the TTL of the BackupSchedule
EditTTL(n, ttls) ==
    /\ \E t \in ttls \ {backupSchedules[n].spec.veleroTTL} :
          backupSchedules' = [backupSchedules EXCEPT ![n].spec.veleroTTL = t]
    /\ cycle' = NoCycle
    /\ UNCHANGED <<veleroSchedules, coll, sel, restoreVars>>

\* an operator edits the cron expression or the TTL of the BackupSchedule
EditSpec(n, crons, ttls) ==
    \/ EditCron(n, crons)
    \/ EditTTL(n, ttls)

\* the engine processes a velero Schedule and reports one of `phases`
VeleroSetPhase(phases) ==
    /\ \E o \in veleroSchedules, p \in phases :
          /\ p # o.phase
          /\ veleroSchedules' = (veleroSchedules \ {o}) \cup {[o EXCEPT !.phase = p]}
    /\ cycle' = NoCycle
    /\ UNCHANGED <<backupSchedules, coll, sel, restoreVars>>

\* the validation schedule appears among the owned schedules; its TTL follows
\* the cron interval, not the configured TTL
CreateValidationSchedule(n, ttls) ==
    /\ backupSchedules[n].spec.veleroSchedule \in ValidCrons
    /\ \A o \in veleroSchedules : o.name # veleroScheduleNames[ValidationSchedule]
    /\ \E t \in ttls :
          veleroSchedules' = veleroSchedules \cup
              {[name |-> veleroScheduleNames[ValidationSchedule], owner |-> n,
                schedule |-> backupSchedules[n].spec.veleroSchedule,
                ttl |-> t, phase |-> ""]}
    /\ cycle' = NoCycle
    /\ UNCHANGED <<backupSchedules, coll, sel, restoreVars>>

\* a backup of the resources schedule made by another hub
ForeignBackup ==
    [name |-> veleroScheduleNames[Resources] \o "-1",
     schedule |-> veleroScheduleNames[Resources],
     cluster |-> "hub-b", phase |-> "Completed", start |-> <<1>>, errors |-> 0]

\* the collision check of the owning loop: when the resources schedule does
\* not own the latest backups in the storage location, the BackupSchedule
\* goes to BackupCollision
CheckCollision(n) ==
    /\ \E o \in ownedBy(veleroSchedules, n), backups \in {<<>>, <<ForeignBackup>>} :
          /\ o.name = veleroScheduleNames[Resources]
          /\ LET r == scheduleOwnsLatestStorageBackups(TRUE, backups, o) IN
             backupSchedules' =
                 IF r.owner THEN backupSchedules
                 ELSE [backupSchedules EXCEPT
                          ![n].status.phase = SchedulePhaseBackupCollision,
                          ![n].status.lastMessage = BackupCollisionPhaseMsg]
    /\ cycle' = NoCycle
    /\ UNCHANGED <<veleroSchedules, coll, sel, restoreVars>>

\* an operator deletes the BackupSchedule and creates a new one of that name
\* and spec; the schedules the old one owned are garbage collected
NewBackupSchedule(n) ==
    /\ backupSchedules[n].status # EmptyStatus
    /\ backupSchedules' = [backupSchedules EXCEPT ![n].status = EmptyStatus]
    /\ veleroSchedules' = {o \in veleroSchedules : o.owner # n}
    /\ cycle' = NoCycle
    /\ UNCHANGED <<coll, sel, restoreVars>>

\* The orchestrator over every cron expression and TTL, with an engine that
\* enables the schedules it is given
Init == InitSchedule(CronExprs, TTLs)

Next ==
    \/ \E n \in DOMAIN backupSchedules : Reconcile(n)
    \/ \E n \in DOMAIN backupSchedules : EditSpec(n, CronExprs, TTLs)
    \/ VeleroSetPhase({"Enabled"})
    \/ \E n \in DOMAIN backupSchedules : CheckCollision(n)
    \/ \E n \in DOMAIN backupSchedules : NewBackupSchedule(n)

Spec == Init /\ [][Next]_vars

\* Drift: valid cron expressions only, no engine, and a validation schedule
\* that may appear among the owned schedules
InitDrift == InitSchedule(ValidCrons, TTLs)

NextDrift ==
    \/ \E n \in DOMAIN backupSchedules : Reconcile(n)
    \/ \E n \in DOMAIN backupSchedules : EditSpec(n, ValidCrons, TTLs)
    \/ \E n \in DOMAIN backupSchedules : CreateValidationSchedule(n, TTLs)

SpecDrift == InitDrift /\ [][NextDrift]_vars

\* Aggregation: one fixed spec, and an engine that reports every phase
InitPhases == InitSchedule({"0 * * * *"}, {0})

NextPhases ==
    \/ \E n \in DOMAIN backupSchedules : Reconcile(n)
    \/ VeleroSetPhase(VeleroSchedulePhases \ {""})
    \/ \E n \in DOMAIN backupSchedules : CheckCollision(n)

SpecPhases == InitPhases /\ [][NextPhases]_vars

(***************************************************************************)
(* Claims about the schedule orchestrator.  A step is a cycle of the       *)
(* BackupSchedule n when it sets `cycle` to a run of n; the cycle has read *)
(* the resource when the run got past Get, and the owned schedules when it *)
(* got past List.  A claim that does not speak of failing API calls is     *)
(* read on the cycles whose API calls succeed; what the cycle leaves       *)
(* behind when a call fails is stated with it.                             *)
(***************************************************************************)
CycleOf(n) == cycle'.branch # "none" /\ cycle'.name = n

ReadResource(n) == CycleOf(n) /\ cycle'.branch # "get"

ReadSchedules(n) == ReadResource(n) /\ cycle'.branch \notin {"validation", "list"}

CronRejected(n) ==
    LET c == backupSchedules[n].spec.veleroSchedule IN
    Len(c) = 0 \/ cronParseStandard(c).kind \in {"err", "panic"}

\* C1: a cycle over an empty or rejected cron expression ends with phase
\* FailedValidation and a non-empty message, persisted when the status write
\* succeeds, and leaves the set of velero Schedules as it was, whatever the
\* prior phase and the existing schedules.
C1_InvalidCronFailsValidation ==
    [][\A n \in DOMAIN backupSchedules :
          (ReadResource(n) /\ CronRejected(n)) =>
             /\ cycle'.phase = SchedulePhaseFailedValidation
             /\ Len(cycle'.lastMessage) > 0
             /\ veleroSchedules' = veleroSchedules
             /\ cycle'.wrote =>
                   /\ backupSchedules'[n].status.phase = SchedulePhaseFailedValidation
                   /\ backupSchedules'[n].status.lastMessage = cycle'.lastMessage
             /\ ~cycle'.wrote => backupSchedules' = backupSchedules]_vars

\* a cycle has failed validation and persisted it while all three schedules
\* of an earlier, valid spec exist
C1_Witness ==
    /\ cycle.branch = "validation"
    /\ cycle.wrote
    /\ Cardinality(veleroSchedules) = 3

\* C2: a cycle with a valid cron expression that finds no owned schedule
\* creates, when every Create succeeds, exactly one schedule per resource
\* type, each with the desired cron expression, sets phase New and requeues
\* after 60 minutes; when a Create fails the phase is Failed.
C2_InitCreatesThree ==
    [][\A n \in DOMAIN backupSchedules :
          (ReadSchedules(n) /\ ownedBy(veleroSchedules, n) = {}) =>
             LET created == veleroSchedules' \ veleroSchedules
                 spec == backupSchedules[n].spec
             IN /\ veleroSchedules \subseteq veleroSchedules'
                /\ \A o \in created :
                      o.owner = n /\ o.schedule = spec.veleroSchedule
                /\ "create" \notin cycle'.calls.failed =>
                      /\ Cardinality(created) = 3
                      /\ \A t \in ResourceTypes :
                            Cardinality({o \in created : o.name = resourceTypes[t]}) = 1
                      /\ cycle'.phase = SchedulePhaseNew
                      /\ cycle'.requeueAfter = 60
                /\ "create" \in cycle'.calls.failed =>
                      /\ Cardinality(created) < 3
                      /\ cycle'.phase = SchedulePhaseFailed
                /\ cycle'.wrote => backupSchedules'[n].status.phase = cycle'.phase]_vars

\* a creation cycle has created the three schedules and persisted phase New
C2_Witness ==
    /\ cycle.branch = "init"
    /\ cycle.calls.created = 3
    /\ cycle.wrote
    /\ \A n \in DOMAIN backupSchedules :
          /\ backupSchedules[n].status.phase = SchedulePhaseNew
          /\ Cardinality(ownedBy(veleroSchedules, n)) = 3

\* the drift of the owned schedules of n from its spec, by the claim's words
Drifted(n) ==
    \E o \in ownedBy(veleroSchedules, n) :
       \/ o.schedule # backupSchedules[n].spec.veleroSchedule
       \/ /\ o.name # veleroScheduleNames[ValidationSchedule]
          /\ o.ttl # backupSchedules[n].spec.veleroTTL

RefsCleared(status) ==
    /\ status.veleroScheduleManagedClusters = Nil
    /\ status.veleroScheduleCredentials = Nil
    /\ status.veleroScheduleResources = Nil

\* C3: a cycle with a valid cron expression that finds owned schedules
\* deletes them all, clears the three status references and resets the phase
\* to New exactly when some schedule's cron expression differs from the
\* desired one or some schedule other than the validation one has another
\* TTL; it creates nothing.  (A failing Delete stops the deletion there.)
C3_DriftDeletesAll ==
    [][\A n \in DOMAIN backupSchedules :
          (ReadSchedules(n) /\ ownedBy(veleroSchedules, n) # {}) =>
             /\ veleroSchedules' \subseteq veleroSchedules
             /\ ~Drifted(n) =>
                   /\ veleroSchedules' = veleroSchedules
                   /\ cycle'.calls.deleted = 0
             /\ (Drifted(n) /\ "delete" \notin cycle'.calls.failed) =>
                   /\ ownedBy(veleroSchedules', n) = {}
                   /\ cycle'.phase = SchedulePhaseNew
                   /\ cycle'.wrote =>
                         /\ backupSchedules'[n].status.phase = SchedulePhaseNew
                         /\ RefsCleared(backupSchedules'[n].status)
             /\ (Drifted(n) /\ "delete" \in cycle'.calls.failed) =>
                   /\ ownedBy(veleroSchedules', n) # {}
                   /\ backupSchedules' = backupSchedules]_vars

\* a drift cycle has deleted all three owned schedules and cleared the status
C3_Witness ==
    /\ cycle.branch = "drift"
    /\ cycle.calls.deleted >= 3
    /\ cycle.wrote
    /\ \A n \in DOMAIN backupSchedules : RefsCleared(backupSchedules[n].status)

\* C4: no cycle changes the cron expression or the TTL of a velero Schedule
\* that exists before and after it.
C4_SpecNeverUpdatedInPlace ==
    [][\A n \in DOMAIN backupSchedules :
          CycleOf(n) =>
             \A o \in veleroSchedules, o2 \in veleroSchedules' :
                o.name = o2.name => (o.schedule = o2.schedule /\ o.ttl = o2.ttl)]_vars

\* a drift cycle has deleted some schedules and left others, still carrying
\* the spec they were created with
C4_Witness ==
    /\ cycle.branch = "drift"
    /\ cycle.calls.deleted > 0
    /\ \E n \in DOMAIN backupSchedules :
          \E o \in ownedBy(veleroSchedules, n) :
             o.schedule # backupSchedules[n].spec.veleroSchedule

\* the owned schedules of n of resource type t: the schedules whose name
\* contains the type's schedule name
OfType(n, t) ==
    {o \in ownedBy(veleroSchedules, n) : Contains(o.name, resourceTypes[t])}

\* C5: each resource type has at most one velero Schedule owned by a
\* BackupSchedule.
C5_AtMostOnePerCategory ==
    \A n \in DOMAIN backupSchedules : \A t \in ResourceTypes :
       Cardinality(OfType(n, t)) <= 1

\* a creation cycle has failed after creating two of the three schedules
C5_Witness ==
    /\ cycle.branch = "init"
    /\ "create" \in cycle.calls.failed
    /\ cycle.calls.created = 2
    /\ Cardinality(veleroSchedules) = 2

\* the phase the claim gives a set of child phases
PhaseByPriority(phases) ==
    IF "" \in phases THEN SchedulePhaseUnknown
    ELSE IF "New" \in phases THEN SchedulePhaseNew
    ELSE IF "FailedValidation" \in phases THEN SchedulePhaseFailedValidation
    ELSE SchedulePhaseEnabled

\* C6: a cycle that finds owned schedules, no drift and a phase other than
\* BackupCollision sets the phase to Unknown if any child has an empty phase,
\* otherwise New if any child is New, otherwise FailedValidation if any child
\* is FailedValidation, otherwise Enabled, in whatever order the children
\* are listed.
C6_PhaseByPriority ==
    [][\A n \in DOMAIN backupSchedules :
          (/\ ReadSchedules(n)
           /\ ownedBy(veleroSchedules, n) # {}
           /\ ~Drifted(n)
           /\ backupSchedules[n].status.phase # SchedulePhaseBackupCollision) =>
             cycle'.phase =
                PhaseByPriority({o.phase : o \in ownedBy(veleroSchedules, n)})]_vars

\* C7: once the phase of a BackupSchedule is BackupCollision, every cycle of
\* it leaves the phase BackupCollision.
C7_CollisionSticky ==
    [][\A n \in DOMAIN backupSchedules :
          (CycleOf(n) /\ backupSchedules[n].status.phase = SchedulePhaseBackupCollision)
             => backupSchedules'[n].status.phase = SchedulePhaseBackupCollision]_vars

\* C8: while the phase of a BackupSchedule is BackupCollision, no cycle of it
\* creates a velero Schedule.
C8_NoCreateWhileCollision ==
    [][\A n \in DOMAIN backupSchedules :
          (CycleOf(n) /\ backupSchedules[n].status.phase = SchedulePhaseBackupCollision)
             => veleroSchedules' \subseteq veleroSchedules]_vars

(***************************************************************************)
(* The collision check on its own: backups arrive in the storage location, *)
(* at most MaxBackupList of them, and the check is called on their listing *)
(* for a resources schedule with or without a cluster label                *)
(***************************************************************************)
StartTimestamps == {<<>>} \cup {<<t>> : t \in 1..MaxTime}

\* resources backups of two hubs, started or not, deleted or not, and a
\* credentials backup
CollisionBackups ==
    {[name |-> veleroScheduleNames[Resources] \o "-backup",
      schedule |-> veleroScheduleNames[Resources],
      cluster |-> c, phase |-> IF p = "Completed" /\ t = <<>> THEN "New" ELSE p,
      start |-> t, errors |-> 0] :
        c \in {"hub-a", "hub-b"}, p \in {"Completed", "Deleting"}, t \in StartTimestamps}
    \cup {[name |-> veleroScheduleNames[Credentials] \o "-backup",
           schedule |-> veleroScheduleNames[Credentials],
           cluster |-> "hub-b", phase |-> "Completed", start |-> <<MaxTime>>,
           errors |-> 0]}

ResourcesSchedules ==
    {[name |-> veleroScheduleNames[Resources]],
     [name |-> veleroScheduleNames[Resources], cluster |-> "hub-a"]}

InitColl ==
    /\ backupSchedules = <<>>
    /\ veleroSchedules = {}
    /\ cycle = NoCycle
    /\ sel = NoCall
    /\ coll = [called |-> FALSE, backups |-> <<>>]
    /\ InitNoRestore

\* a backup is added to the listing of the storage location
CollisionBackupListed ==
    /\ ~coll.called
    /\ Len(coll.backups) < MaxBackupList
    /\ \E bkp \in CollisionBackups :
          coll' = [coll EXCEPT !.backups = Append(@, bkp)]
    /\ UNCHANGED <<backupSchedules, veleroSchedules, cycle, sel, restoreVars>>

ScheduleOwnsLatestStorageBackups ==
    /\ ~coll.called
    /\ \E ok \in BOOLEAN, sched \in ResourcesSchedules :
          coll' = [called |-> TRUE, listOk |-> ok, backups |-> coll.backups,
                   schedule |-> sched,
                   out |-> scheduleOwnsLatestStorageBackups(ok, coll.backups, sched)]
    /\ UNCHANGED <<backupSchedules, veleroSchedules, cycle, sel, restoreVars>>

NextColl ==
    \/ CollisionBackupListed
    \/ ScheduleOwnsLatestStorageBackups

SpecColl == InitColl /\ [][NextColl]_vars

\* the listed resources backups that are not being deleted, by position
Candidates(items) ==
    {i \in DOMAIN items : /\ items[i].schedule = veleroScheduleNames[Resources]
                          /\ items[i].phase # "Deleting"}

\* those of them no other is later than (a backup without a start timestamp
\* counts as started at time 0)
Latest(items) ==
    {i \in Candidates(items) :
        \A j \in Candidates(items) : timeUnix(items[j]) <= timeUnix(items[i])}

\* C9: the collision check answers "not owner", with the offending backup,
\* exactly when the latest resources backup that is not in the Deleting phase
\* has a cluster label other than the schedule's; it answers "owner" when
\* that label is the schedule's, when there is no such backup and when the
\* listing fails.  When several backups share the latest start time the
\* answer is that of one of them.
C9_CollisionIffLatestForeign ==
    coll.called =>
       LET items == coll.backups
           own == clusterLabel(coll.schedule)
           r == coll.out
       IN /\ (~coll.listOk \/ Candidates(items) = {}) =>
                r = [owner |-> TRUE, backup |-> <<>>]
          /\ (coll.listOk /\ Candidates(items) # {}) =>
                /\ r.owner =>
                      /\ r.backup = <<>>
                      /\ \E i \in Latest(items) : items[i].cluster = own
                /\ ~r.owner =>
                      \E i \in Latest(items) :
                         /\ r.backup = <<items[i]>>
                         /\ items[i].cluster # own

\* a collision found although a later backup of this hub is listed, which is
\* in the Deleting phase, and an earlier one of this hub is not
C9_Witness ==
    /\ coll.called
    /\ ~coll.out.owner
    /\ "cluster" \in DOMAIN coll.schedule
    /\ \E i, j \in DOMAIN coll.backups :
          /\ coll.backups[i].schedule = veleroScheduleNames[Resources]
          /\ coll.backups[i].phase = "Deleting"
          /\ coll.backups[i].cluster = coll.schedule.cluster
          /\ timeUnix(coll.backups[i]) > timeUnix(coll.out.backup[1])
          /\ j \in Candidates(coll.backups)
          /\ coll.backups[j].cluster = coll.schedule.cluster
          /\ timeUnix(coll.backups[j]) < timeUnix(coll.out.backup[1])

(***************************************************************************)
(* Backup selection on its own: backups arrive in the namespace, at most   *)
(* MaxBackupList of them, the i-th named after its schedule and i, and the *)
(* selection is called on their listing                                    *)
(***************************************************************************)
BackupIds == <<"-1", "-2", "-3", "-4", "-5">>

\* the i-th backup: one of the credentials schedule with any error count and
\* start timestamp, or one of the resources schedule
SelectionBackups(i) ==
    {[name |-> veleroScheduleNames[Credentials] \o BackupIds[i],
      schedule |-> veleroScheduleNames[Credentials],
      cluster |-> "hub-a", phase |-> IF st = <<>> THEN "New" ELSE "Completed",
      start |-> st, errors |-> e] : st \in StartTimestamps, e \in 0..MaxErrors}
    \cup {[name |-> veleroScheduleNames[Resources] \o BackupIds[i],
           schedule |-> veleroScheduleNames[Resources],
           cluster |-> "hub-a", phase |-> "Completed", start |-> <<MaxTime>>,
           errors |-> 0]}

InitSel ==
    /\ backupSchedules = <<>>
    /\ veleroSchedules = {}
    /\ cycle = NoCycle
    /\ coll = NoCall
    /\ sel = [called |-> FALSE, backups |-> <<>>]
    /\ InitNoRestore

\* a backup is added to the namespace
SelectionBackupListed ==
    /\ ~sel.called
    /\ Len(sel.backups) < MaxBackupList
    /\ \E bkp \in SelectionBackups(Len(sel.backups) + 1) :
          sel' = [sel EXCEPT !.backups = Append(@, bkp)]
    /\ UNCHANGED <<backupSchedules, veleroSchedules, cycle, coll, restoreVars>>

GetVeleroBackupName ==
    /\ ~sel.called
    /\ \E given \in {Nil, "", veleroScheduleNames[Credentials] \o BackupIds[1]},
          ok \in BOOLEAN, t \in {Credentials, Resources} :
          sel' = [called |-> TRUE, veleroBackupName |-> given, apiOk |-> ok,
                  backups |-> sel.backups, resourceType |-> t,
                  out |-> getVeleroBackupName(given, ok, sel.backups, t)]
    /\ UNCHANGED <<backupSchedules, veleroSchedules, cycle, coll, restoreVars>>

NextSel ==
    \/ SelectionBackupListed
    \/ GetVeleroBackupName

SpecSel == InitSel /\ [][NextSel]_vars

\* the listed backups whose name contains the schedule name of the type
Related(items, resourceType) ==
    {i \in DOMAIN items : Contains(items[i].name, veleroScheduleNames[resourceType])}

\* both backups have a start timestamp and that of a is the later one
StartedAfter(a, b) == a.start # <<>> /\ b.start # <<>> /\ a.start[1] > b.start[1]

\* C10: when the Restore names no backup and the listing succeeds, the
\* selection returns a backup whose name contains the schedule name of the
\* resource type, that has the least error count among those and that no
\* other with that error count started after; it returns an error when no
\* name contains the schedule name.
C10_LeastErrorsThenLatest ==
    (/\ sel.called
     /\ sel.veleroBackupName \in {Nil, ""}
     /\ sel.apiOk) =>
       LET items == sel.backups
           related == Related(items, sel.resourceType)
       IN IF related = {} THEN sel.out.err # ""
          ELSE /\ sel.out.err = ""
               /\ \E i \in related :
                     /\ items[i].name = sel.out.name
                     /\ \A j \in related :
                           /\ items[i].errors <= items[j].errors
                           /\ items[j].errors = items[i].errors =>
                                 ~StartedAfter(items[j], items[i])

\* C11: given a non-empty backup name, the selection returns that name when
\* the Get succeeds and a backup of that name is in the namespace, and an
\* error and no name otherwise, whatever other backups are listed.
C11_ExplicitNameOrError ==
    (/\ sel.called
     /\ sel.veleroBackupName # Nil
     /\ Len(sel.veleroBackupName) > 0) =>
       IF sel.apiOk /\ \E i \in DOMAIN sel.backups :
                          sel.backups[i].name = sel.veleroBackupName
       THEN sel.out = [name |-> sel.veleroBackupName, err |-> ""]
       ELSE sel.out.name = "" /\ sel.out.err # ""

\* the named backup is absent, the Get and the resource type's listing would
\* succeed and hold a backup of the type, and the selection returns an error
C11_Witness ==
    /\ sel.called
    /\ sel.apiOk
    /\ sel.veleroBackupName # Nil
    /\ Len(sel.veleroBackupName) > 0
    /\ \A i \in DOMAIN sel.backups : sel.backups[i].name # sel.veleroBackupName
    /\ Related(sel.backups, sel.resourceType) # {}
    /\ sel.out.err # ""

(***************************************************************************)
(* State machine of the restore orchestrator: one Restore, created by an   *)
(* operator over a namespace that holds some velero Backups, is reconciled *)
(* while velero runs the velero Restores created for it.                   *)
(***************************************************************************)
EmptyRestoreStatus ==
    [veleroManagedClustersRestoreName |-> "", veleroCredentialsRestoreName |-> "",
     veleroResourcesRestoreName |-> "", conditions |-> {}]

\* the three resource types a Restore selects a backup for
RestoreCategories == {ManagedClusters, Credentials, Resources}

\* the name of the backup the schedule of a resource type produced
scheduledBackup(key) == veleroScheduleNames[key] \o "-1"

\* what an operator writes as the backup of a resource type: nothing, one of
\* the words latest and skip, or the name of a scheduled backup of that type
BackupSelections(key) == {Nil, "latest", "skip", scheduledBackup(key)}

RestoreSpecs ==
    [veleroManagedClustersBackupName : BackupSelections(ManagedClusters),
     veleroCredentialsBackupName : BackupSelections(Credentials),
     veleroResourcesBackupName : BackupSelections(Resources)]

veleroBackup(name, startTime, errors) ==
    [name |-> name, schedule |-> "", cluster |-> "hub-a", phase |-> "Completed",
     start |-> <<startTime>>, errors |-> errors]

\* the namespace holds no backup, or one backup of each schedule, a second
\* and later one of the credentials schedule and one made by hand, or these
\* without the backup of the resources schedule
RestoreBackupListings ==
    LET full == <<veleroBackup(scheduledBackup(ManagedClusters), 1, 0),
                  veleroBackup(scheduledBackup(Credentials), 1, 0),
                  veleroBackup(veleroScheduleNames[Credentials] \o "-2", 2, 0),
                  veleroBackup(scheduledBackup(Resources), 1, 0),
                  veleroBackup("manual-backup", 2, 0)>>
    IN {<<>>, full,
        SelectSeq(full, LAMBDA bkp : bkp.name # scheduledBackup(Resources))}

InitRestoreOf(names, specs, listings) ==
    /\ backupSchedules = <<>>
    /\ veleroSchedules = {}
    /\ cycle = NoCycle
    /\ coll = NoCall
    /\ sel = NoCall
    /\ acmRestore \in [name : names, spec : specs, status : {EmptyRestoreStatus}]
    /\ veleroRestores = {}
    /\ veleroBackups \in listings
    /\ rcycle = NoCycle
    /\ call = NoCall

\* the outcomes of the API calls of one Restore Reconcile that can tell one
\* run from another: <<get, listOk, updateOk, items, order, failAt, backupsOk>>
restoreReconcileInputs ==
    LET owned == ownedBy(veleroRestores, acmRestore.name)
        keys == DOMAIN veleroScheduleNames
    IN {<<"notfound", TRUE, TRUE, <<>>, <<>>, 0, TRUE>>,
        <<"error", TRUE, TRUE, <<>>, <<>>, 0, TRUE>>,
        <<"ok", FALSE, TRUE, <<>>, <<>>, 0, TRUE>>}
       \cup (IF owned = {}
             THEN {<<"ok", TRUE, u, <<>>, order, failAt, b>> :
                      u \in BOOLEAN, order \in Perms(keys),
                      failAt \in 0..Cardinality(keys), b \in BOOLEAN}
             ELSE {<<"ok", TRUE, u, items, <<>>, 0, TRUE>> :
                      u \in BOOLEAN, items \in Perms(owned)})

\* one Reconcile request for the Restore is served, its API calls ending as
\* one of `inputs` says
RestoreReconcileWith(inputs) ==
    /\ \E c \in {restoreReconcileRun(acmRestore, veleroRestores, veleroBackups,
                                     in[1], in[2], in[3], in[4], in[5], in[6], in[7]) :
                    in \in inputs} :
          /\ rcycle' = [name |-> c.name, branch |-> c.branch, err |-> c.err,
                        wrote |-> c.wrote, conditions |-> c.status.conditions,
                        failed |-> c.failed, skipped |-> c.skipped,
                        backupsOk |-> c.backupsOk, requeueAfter |-> c.requeueAfter]
          /\ veleroRestores' = c.store
          /\ acmRestore' = [acmRestore EXCEPT !.status = IF c.wrote THEN c.status ELSE @]
    /\ UNCHANGED <<backupSchedules, veleroSchedules, cycle, coll, sel, veleroBackups,
                   call>>

RestoreReconcile == RestoreReconcileWith(restoreReconcileInputs)

\* a Reconcile request all of whose API calls succeed
RestoreReconcileOk ==
    RestoreReconcileWith({in \in restoreReconcileInputs :
                             in[1] = "ok" /\ in[2] /\ in[3] /\ in[6] = 0 /\ in[7]})

\* a Reconcile request that finds no velero Restore and one of whose Creates
\* fails
RestoreReconcileCreateFails ==
    RestoreReconcileWith({in \in restoreReconcileInputs :
                             in[1] = "ok" /\ in[2] /\ in[3] /\ in[6] > 0 /\ in[7]})

\* velero moves a velero Restore that is not finished to one of `phases`
VeleroRestoreSetPhase(phases) ==
    /\ \E o \in veleroRestores, p \in phases :
          /\ p # o.phase
          /\ ~isVeleroRestoreFinished(o)
          /\ veleroRestores' = (veleroRestores \ {o}) \cup {[o EXCEPT !.phase = p]}
    /\ rcycle' = NoCycle
    /\ UNCHANGED <<backupSchedules, veleroSchedules, cycle, coll, sel, acmRestore,
                   veleroBackups, call>>

InitRestore == InitRestoreOf({"restore-acm"}, RestoreSpecs, RestoreBackupListings)

NextRestore ==
    \/ RestoreReconcile
    \/ VeleroRestoreSetPhase({"Completed"})

SpecRestore == InitRestore /\ [][NextRestore]_vars

(***************************************************************************)
(* Claims on the restore orchestrator.  A creation cycle is a Reconcile    *)
(* that found no owned velero Restore; a claim that says nothing of        *)
(* failing calls is read on the cycles whose calls succeed.                *)
(***************************************************************************)
RestoreCycle == rcycle'.branch # "none"

CreationCycle == RestoreCycle /\ rcycle'.branch = "init"

\* the velero Restores the Restore owns for a resource type
RestoresOf(store, key) == {o \in ownedBy(store, acmRestore.name) : o.key = key}

\* the backup the ordering of mostRecentWithLessErrors puts first among the
\* backups of a resource type
LatestChoice(key) == getVeleroBackupName(Nil, TRUE, veleroBackups, key)

\* C12: a creation cycle whose calls succeed creates, for a resource type the
\* Restore selects "latest" for, a velero Restore of the backup the ordering
\* puts first among the backups of that type, and creates none for a type it
\* selects "skip" for.
C12_SentinelsHonoured ==
    [][(CreationCycle /\ rcycle'.err = "" /\ rcycle'.backupsOk) =>
          \A key \in RestoreCategories :
             LET given == specBackupName(acmRestore.spec, key) IN
             /\ (given = "latest" /\ LatestChoice(key).err = "") =>
                   \E o \in RestoresOf(veleroRestores', key) :
                      o.backupName = LatestChoice(key).name
             /\ given = "skip" => RestoresOf(veleroRestores', key) = {}]_vars

\* C13: after a cycle that read the Restore and its velero Restores, whose
\* calls succeeded and that returned no error, the Restore owns exactly one
\* velero Restore for every resource type it does not select "skip" for and
\* none for a type it selects "skip" for.
C13_ExactlyOnePerCategory ==
    [][(RestoreCycle /\ rcycle'.branch \in {"init", "status"} /\ rcycle'.err = ""
        /\ rcycle'.backupsOk) =>
          \A key \in RestoreCategories :
             IF specBackupName(acmRestore.spec, key) = "skip"
             THEN RestoresOf(veleroRestores', key) = {}
             ELSE Cardinality(RestoresOf(veleroRestores', key)) = 1]_vars

\* the backup a Restore selects for a resource type can be resolved: the name
\* it gives is the name of a backup of the namespace or, when it gives none,
\* the namespace holds a backup of the schedule of that type
Resolvable(key) ==
    LET given == specBackupName(acmRestore.spec, key) IN
    IF given # Nil /\ Len(given) > 0
    THEN \E i \in DOMAIN veleroBackups : veleroBackups[i].name = given
    ELSE Related(veleroBackups, key) # {}

\* C14: a creation cycle in which no Create and no status write fails returns
\* no error, creates a velero Restore for every resource type whose backup
\* can be resolved and none for a type whose backup cannot be (name absent,
\* no backup of the schedule, or failing Get or List).
C14_UnresolvedOmitted ==
    [][(CreationCycle /\ rcycle'.failed = {}) =>
          /\ rcycle'.err = ""
          /\ \A key \in RestoreCategories :
                IF rcycle'.backupsOk /\ Resolvable(key)
                THEN Cardinality(RestoresOf(veleroRestores', key)) = 1
                ELSE /\ RestoresOf(veleroRestores', key) = {}
                     /\ key \in rcycle'.skipped]_vars

\* a creation cycle returned no error after it left out a resource type whose
\* named backup is absent and created the velero Restore of another type
C14_Witness ==
    /\ rcycle.branch = "init" /\ rcycle.err = "" /\ rcycle.backupsOk
    /\ \E k1, k2 \in RestoreCategories :
          /\ specBackupName(acmRestore.spec, k1) = scheduledBackup(k1)
          /\ ~Resolvable(k1)
          /\ RestoresOf(veleroRestores, k1) = {}
          /\ RestoresOf(veleroRestores, k2) # {}

(***************************************************************************)
(* The restore orchestrator over running velero Restores: the Restore has  *)
(* any of two names and takes the managed clusters backup from the         *)
(* schedule or from a backup made by hand, and velero reports every phase. *)
(***************************************************************************)
StatusRestoreNames == {"restore-acm", "acm-managed-clusters-schedule-restore"}

StatusRestoreSpecs ==
    [veleroManagedClustersBackupName : {Nil, "manual-backup"},
     veleroCredentialsBackupName : {Nil},
     veleroResourcesBackupName : {Nil}]

InitRestoreStatus ==
    InitRestoreOf(StatusRestoreNames, StatusRestoreSpecs,
                  {l \in RestoreBackupListings : Len(l) = 5})

NextRestoreStatus ==
    \/ RestoreReconcile
    \/ VeleroRestoreSetPhase(VeleroRestorePhases \ {""})

SpecRestoreStatus == InitRestoreStatus /\ [][NextRestoreStatus]_vars

\* the conditions of a type among the conditions of a status
ConditionsOf(conditions, type) == {c \in conditions : c.type = type}

\* the owned velero Restores that are finished
FinishedRestores == {o \in ownedBy(veleroRestores, acmRestore.name) :
                        isVeleroRestoreFinished(o)}

\* C15: a cycle over existing velero Restores sets RestoreComplete to True
\* when a finished one was created for credentials or resources, and leaves
\* RestoreComplete as it was when the only finished ones were created for
\* managed clusters.
C15_CompleteOnlyByNonManagedClusters ==
    [][(RestoreCycle /\ rcycle'.branch = "status") =>
          /\ (\E o \in FinishedRestores : o.key \in {Credentials, Resources}) =>
                \E c \in ConditionsOf(rcycle'.conditions, RestoreComplete) :
                   c.status = ConditionTrue
          /\ (\A o \in FinishedRestores : o.key = ManagedClusters) =>
                ConditionsOf(rcycle'.conditions, RestoreComplete)
                   = ConditionsOf(acmRestore.status.conditions, RestoreComplete)]_vars

(***************************************************************************)
(* Claims on both orchestrators                                            *)
(***************************************************************************)
EngineCalls == {"list", "create", "delete", "update"}

\* C16: a cycle of the schedule orchestrator or of the restore orchestrator
\* in which a List, Create, Delete or Status().Update fails, the Get or List
\* of velero Backups included, returns an error.
C16_FailedCallReturnsError ==
    [][/\ \A n \in DOMAIN backupSchedules :
             (CycleOf(n) /\ cycle'.calls.failed \cap EngineCalls # {}) => cycle'.err # ""
       /\ (RestoreCycle /\ (\/ rcycle'.failed \cap EngineCalls # {}
                            \/ CreationCycle /\ ~rcycle'.backupsOk))
             => rcycle'.err # ""]_vars

(***************************************************************************)
(* Convergence of the schedule orchestrator.  The controller runtime runs  *)
(* Reconcile again after RequeueAfter and after every error, so a cycle    *)
(* whose calls succeed is taken again and again: weak fairness on          *)
(* ReconcileOk.                                                            *)
(***************************************************************************)
ScheduleName == "schedule-acm"

\* every call succeeds, the operator edits the cron expression at will
InitConverge == InitSchedule(ValidCrons, TTLs)

NextConverge ==
    \/ ReconcileOk(ScheduleName)
    \/ EditCron(ScheduleName, ValidCrons)
    \/ VeleroSetPhase({"Enabled"})

SpecConverge ==
    InitConverge /\ [][NextConverge]_vars /\ WF_vars(ReconcileOk(ScheduleName))

\* an owned velero Schedule carries another cron expression than the spec
CronDrifted(n) ==
    \E o \in ownedBy(veleroSchedules, n) :
       o.schedule # backupSchedules[n].spec.veleroSchedule

\* every resource type has an owned velero Schedule
AllOwned(n) ==
    \A key \in ResourceTypes :
       \E o \in ownedBy(veleroSchedules, n) : o.name = resourceTypes[key]

\* every resource type has an owned velero Schedule with the cron expression
\* of the spec
CronConverged(n) ==
    \A key \in ResourceTypes :
       \E o \in ownedBy(veleroSchedules, n) :
          /\ o.name = resourceTypes[key]
          /\ o.schedule = backupSchedules[n].spec.veleroSchedule

\* C17: when the cron expression of an owned velero Schedule differs from
\* that of the BackupSchedule and the calls of every cycle succeed, every
\* resource type eventually has an owned velero Schedule with the cron
\* expression of the BackupSchedule.
C17_CronDriftConverges == CronDrifted(ScheduleName) ~> CronConverged(ScheduleName)

\* a cycle has deleted the three velero Schedules whose cron expression
\* differed from the spec
C17_Witness ==
    /\ cycle.branch = "drift" /\ cycle.err = "" /\ cycle.calls.deleted = 3
    /\ ownedBy(veleroSchedules, ScheduleName) = {}

\* a Create may fail while the BackupSchedule owns no velero Schedule; every
\* other call, and every call once a velero Schedule is owned, succeeds
InitPartial == InitSchedule(ValidCrons, TTLs)

NextPartial ==
    \/ ReconcileOk(ScheduleName)
    \/ ReconcileCreateFails(ScheduleName)
    \/ VeleroSetPhase({"Enabled"})

SpecPartial ==
    InitPartial /\ [][NextPartial]_vars /\ WF_vars(ReconcileOk(ScheduleName))

\* some resource types have an owned velero Schedule and some have none
PartiallyCreated(n) == ownedBy(veleroSchedules, n) # {} /\ ~AllOwned(n)

\* C18: when a failed Create has left velero Schedules for some resource types
\* only, the cycles that follow, all of whose calls succeed, eventually leave
\* an owned velero Schedule for each of the three resource types.
C18_PartialCreateConverges == PartiallyCreated(ScheduleName) ~> AllOwned(ScheduleName)

(***************************************************************************)
(* The schedule orchestrator over every TTL an operator can write: zero,   *)
(* whole seconds and half a second                                         *)
(***************************************************************************)
AllTTLs == TTLs \cup {Second \div 2}

InitTTL == InitSchedule({"0 * * * *"}, AllTTLs)

NextTTL ==
    \/ Reconcile(ScheduleName)
    \/ EditTTL(ScheduleName, AllTTLs)
    \/ VeleroSetPhase({"Enabled"})

SpecTTL == InitTTL /\ [][NextTTL]_vars

\* the owned velero Schedules are those initVeleroSchedules builds from the
\* spec as it is now, whatever phase velero has given them since
FreshlyCreated(n) ==
    /\ AllOwned(n)
    /\ \A o \in ownedBy(veleroSchedules, n) :
          \E key \in ResourceTypes :
             [o EXCEPT !.phase = ""] = newVeleroSchedule(key, n, backupSchedules[n].spec)

\* C19: a cycle that finds the velero Schedules as a creation cycle builds
\* them from the spec as it is now does not take the drift branch and deletes
\* none of them.
C19_FreshSchedulesNotDrifted ==
    [][\A n \in DOMAIN backupSchedules :
          (ReadSchedules(n) /\ FreshlyCreated(n)) =>
             /\ cycle'.branch # "drift"
             /\ veleroSchedules \subseteq veleroSchedules']_vars

\* C20: a cycle that ends in the validation, creation, drift or steady
\* branch calls cleanupBackups once, with maxBackups times the number of
\* resource types.
C20_CleanupEveryCycle ==
    [][\A n \in DOMAIN backupSchedules :
          (CycleOf(n) /\ cycle'.branch \in {"validation", "init", "drift", "steady"}) =>
             cycle'.cleanup
                = <<backupSchedules[n].spec.maxBackups * Cardinality(ResourceTypes)>>]_vars

\* C21: a cycle over an empty or rejected cron expression requests no timed
\* requeue and returns an error exactly when its status write fails; a cycle
\* of a BackupSchedule whose persisted phase is FailedValidation and whose
\* cron expression is still rejected leaves the persisted phase
\* FailedValidation.
C21_FailedValidationTerminal ==
    [][\A n \in DOMAIN backupSchedules :
          /\ (ReadResource(n) /\ CronRejected(n)) =>
                /\ cycle'.branch = "validation"
                /\ cycle'.requeueAfter = 0
                /\ cycle'.wrote <=> cycle'.err = ""
          /\ (/\ CycleOf(n) /\ CronRejected(n)
              /\ backupSchedules[n].status.phase = SchedulePhaseFailedValidation) =>
                backupSchedules'[n].status.phase = SchedulePhaseFailedValidation]_vars

\* a cycle over a rejected cron expression could not write the status, which
\* an earlier cycle had left at FailedValidation
C21_Witness ==
    /\ cycle.branch = "validation" /\ ~cycle.wrote /\ cycle.requeueAfter = 0
    /\ backupSchedules[cycle.name].status.phase = SchedulePhaseFailedValidation

(***************************************************************************)
(* Two BackupSchedules in one namespace, reconciled in any interleaving    *)
(* by cycles all of whose calls succeed                                    *)
(***************************************************************************)
TwoScheduleNames == {"schedule-acm", "schedule-b"}

InitTwoSchedules ==
    /\ backupSchedules \in
          [TwoScheduleNames ->
              [spec : BackupScheduleSpecs(ValidCrons, {0}), status : {EmptyStatus}]]
    /\ veleroSchedules = {}
    /\ cycle = NoCycle
    /\ coll = NoCall
    /\ sel = NoCall
    /\ InitNoRestore

NextTwoSchedules ==
    \/ \E n \in DOMAIN backupSchedules : ReconcileOk(n)
    \/ \E n \in DOMAIN backupSchedules : EditCron(n, ValidCrons)
    \/ VeleroSetPhase({"Enabled"})

SpecTwoSchedules == InitTwoSchedules /\ [][NextTwoSchedules]_vars

\* C22: with every call succeeding, a cycle of a BackupSchedule that finds no
\* owned velero Schedule ends as it does when the BackupSchedule is alone in
\* the namespace, whatever the cycles of another BackupSchedule have done:
\* it owns a velero Schedule for every resource type and its phase is New.
C22_DistinctSchedulesIndependent ==
    [][\A n \in DOMAIN backupSchedules :
          (CycleOf(n) /\ cycle'.branch = "init") =>
             /\ \A key \in ResourceTypes :
                   \E o \in ownedBy(veleroSchedules', n) : o.name = resourceTypes[key]
             /\ cycle'.phase = SchedulePhaseNew]_vars

(***************************************************************************)
(* Helpers of the Restore reconciler whose code is not in the files read:  *)
(* they are written from their contracts and held against the tables of    *)
(* restore_test.go.                                                        *)
(***************************************************************************)
skipRestoreStr == "skip"
latestBackupStr == "latest"
CleanupTypeNone == "CleanupTypeNone"
CleanupTypeAll == "CleanupTypeAll"

\* the RestoreSpec of the tests: the fields they set, Nil for a name left out
TestRestoreSpec(sync, cleanup, managedClusters, credentials, resources) ==
    [syncRestoreWithNewBackups |-> sync, cleanupBeforeRestore |-> cleanup,
     veleroManagedClustersBackupName |-> managedClusters,
     veleroCredentialsBackupName |-> credentials,
     veleroResourcesBackupName |-> resources]

\* what an operator can write for the backup of a resource type
HelperSelections == {Nil, skipRestoreStr, latestBackupStr, "acm-managed-clusters-schedule-111"}

HelperRestoreSpecs ==
    [syncRestoreWithNewBackups : BOOLEAN,
     cleanupBeforeRestore : {CleanupTypeNone, CleanupTypeAll},
     veleroManagedClustersBackupName : HelperSelections,
     veleroCredentialsBackupName : HelperSelections,
     veleroResourcesBackupName : HelperSelections]

\* a name left out is taken for a backup to restore
isSkipAllRestoresNilIsNotSkip(restore) ==
    /\ restore.spec.veleroManagedClustersBackupName = skipRestoreStr
    /\ restore.spec.veleroCredentialsBackupName = skipRestoreStr
    /\ restore.spec.veleroResourcesBackupName = skipRestoreStr

isSkipAllRestores(restore) ==
    /\ \/ restore.spec.veleroManagedClustersBackupName = Nil
       \/ restore.spec.veleroManagedClustersBackupName = skipRestoreStr
    /\ \/ restore.spec.veleroCredentialsBackupName = Nil
       \/ restore.spec.veleroCredentialsBackupName = skipRestoreStr
    /\ \/ restore.spec.veleroResourcesBackupName = Nil
       \/ restore.spec.veleroResourcesBackupName = skipRestoreStr

\* the rows of Test_isSkipAllRestores
Test_isSkipAllRestores ==
    {[spec |-> TestRestoreSpec(FALSE, CleanupTypeNone, skipRestoreStr, skipRestoreStr,
                               skipRestoreStr), want |-> TRUE],
     [spec |-> TestRestoreSpec(FALSE, "", Nil, Nil, Nil), want |-> TRUE],
     [spec |-> TestRestoreSpec(FALSE, CleanupTypeAll, skipRestoreStr, latestBackupStr,
                               latestBackupStr), want |-> FALSE],
     [spec |-> TestRestoreSpec(FALSE, CleanupTypeAll, latestBackupStr, latestBackupStr,
                               latestBackupStr), want |-> FALSE],
     [spec |-> TestRestoreSpec(FALSE, CleanupTypeNone, skipRestoreStr, skipRestoreStr,
                               latestBackupStr), want |-> FALSE]}

InitHelpers ==
    /\ backupSchedules = <<>>
    /\ veleroSchedules = {}
    /\ cycle = NoCycle
    /\ coll = NoCall
    /\ sel = NoCall
    /\ acmRestore = Nil
    /\ veleroRestores = {}
    /\ veleroBackups = <<>>
    /\ rcycle = NoCycle
    /\ call = NoCall

HelperUnchanged ==
    UNCHANGED <<backupSchedules, veleroSchedules, cycle, coll, sel, acmRestore,
                veleroRestores, veleroBackups, rcycle>>

IsSkipAllRestores ==
    /\ call = NoCall
    /\ \E spec \in HelperRestoreSpecs :
          call' = [fn |-> "isSkipAllRestores", restore |-> [spec |-> spec],
                   out |-> isSkipAllRestores([spec |-> spec])]
    /\ HelperUnchanged

\* a backup name is accepted for the credentials
isValidSyncOptionsAnyCredentials(restore) ==
    /\ restore.spec.syncRestoreWithNewBackups
    /\ restore.spec.cleanupBeforeRestore = CleanupTypeAll
    /\ restore.spec.veleroManagedClustersBackupName # Nil
    /\ restore.spec.veleroCredentialsBackupName # Nil
    /\ restore.spec.veleroResourcesBackupName = latestBackupStr

\* the first result of isValidSyncOptions; its message is not modelled
isValidSyncOptions(restore) ==
    IF ~restore.spec.syncRestoreWithNewBackups THEN FALSE
    ELSE IF \/ restore.spec.veleroManagedClustersBackupName = Nil
            \/ restore.spec.veleroCredentialsBackupName = Nil
            \/ restore.spec.veleroResourcesBackupName = Nil
    THEN FALSE
    ELSE IF restore.spec.cleanupBeforeRestore # CleanupTypeAll THEN FALSE
    ELSE IF restore.spec.veleroCredentialsBackupName
               \notin {skipRestoreStr, latestBackupStr}
    THEN FALSE
    ELSE restore.spec.veleroResourcesBackupName = latestBackupStr

\* the rows of Test_isValidSyncOptions
Test_isValidSyncOptions ==
    {[spec |-> TestRestoreSpec(TRUE, CleanupTypeNone, skipRestoreStr, skipRestoreStr,
                               skipRestoreStr), want |-> FALSE],
     [spec |-> TestRestoreSpec(TRUE, CleanupTypeNone, Nil, Nil, Nil), want |-> FALSE],
     [spec |-> TestRestoreSpec(TRUE, CleanupTypeAll, skipRestoreStr,
                               "acm-managed-clusters-schedule-111", latestBackupStr),
      want |-> FALSE],
     [spec |-> TestRestoreSpec(TRUE, CleanupTypeAll, skipRestoreStr, latestBackupStr,
                               skipRestoreStr), want |-> FALSE],
     [spec |-> TestRestoreSpec(FALSE, CleanupTypeAll, skipRestoreStr, latestBackupStr,
                               latestBackupStr), want |-> FALSE],
     [spec |-> TestRestoreSpec(TRUE, CleanupTypeAll, skipRestoreStr, latestBackupStr,
                               latestBackupStr), want |-> TRUE]}

IsValidSyncOptions ==
    /\ call = NoCall
    /\ \E spec \in HelperRestoreSpecs :
          call' = [fn |-> "isValidSyncOptions", restore |-> [spec |-> spec],
                   out |-> isValidSyncOptions([spec |-> spec])]
    /\ HelperUnchanged

RestorePhaseStarted == "Started"
RestorePhaseRunning == "Running"
RestorePhaseEnabled == "Enabled"
RestorePhaseFinished == "Finished"
RestorePhases == {"", RestorePhaseStarted, RestorePhaseRunning, RestorePhaseEnabled,
                  RestorePhaseFinished}

\* a Restore that was Finished stays Finished
setRestorePhaseKeepsFinished(restoreList, restore) ==
    IF restore.status.phase = RestorePhaseFinished \/ isSkipAllRestores(restore)
    THEN RestorePhaseFinished
    ELSE RestorePhaseStarted

\* the phase of a Restore from its velero Restores; with velero Restores the
\* phase is Running while one of them is not finished, then Enabled when the
\* sync options are valid and Finished when they are not
setRestorePhase(restoreList, restore) ==
    IF Len(restoreList) = 0
    THEN IF isSkipAllRestores(restore) THEN RestorePhaseFinished
         ELSE RestorePhaseStarted
    ELSE IF \E i \in DOMAIN restoreList : ~isVeleroRestoreFinished(restoreList[i])
    THEN RestorePhaseRunning
    ELSE IF isValidSyncOptions(restore) THEN RestorePhaseEnabled
    ELSE RestorePhaseFinished

\* the rows of Test_setRestorePhase: the list is nil in both
Test_setRestorePhase ==
    {[spec |-> TestRestoreSpec(TRUE, CleanupTypeNone, skipRestoreStr, skipRestoreStr,
                               skipRestoreStr),
      phase |-> RestorePhaseRunning, want |-> RestorePhaseFinished],
     [spec |-> TestRestoreSpec(TRUE, CleanupTypeNone, latestBackupStr, skipRestoreStr,
                               skipRestoreStr),
      phase |-> RestorePhaseRunning, want |-> RestorePhaseStarted]}

\* the lists of velero Restores setRestorePhase is called with: none, or one
\* that velero is running or has completed
HelperRestoreLists ==
    {<<>>} \cup {<<[newVeleroRestore("Restore", "acm-resources-schedule-1", Resources)
                      EXCEPT !.phase = p]>> : p \in {"InProgress", "Completed"}}

SetRestorePhase ==
    /\ call = NoCall
    /\ \E spec \in HelperRestoreSpecs, phase \in RestorePhases,
          restoreList \in HelperRestoreLists :
          LET restore == [spec |-> spec, status |-> [phase |-> phase]] IN
          call' = [fn |-> "setRestorePhase", restore |-> restore,
                   restoreList |-> restoreList,
                   out |-> setRestorePhase(restoreList, restore)]
    /\ HelperUnchanged

\* the result asks for another cycle: after the sync interval of the spec
\* when the Restore is Enabled with valid sync options, after
\* managedClusterImportInterval when it is Finished
requeueAfterOf(restore) ==
    IF restore.status.phase = RestorePhaseEnabled /\ isValidSyncOptions(restore)
    THEN restore.spec.restoreSyncInterval
    ELSE IF restore.status.phase = RestorePhaseFinished
    THEN managedClusterImportInterval
    ELSE 0

\* the error is dropped when another cycle is asked for
sendResultDropsError(restore, err) ==
    [requeueAfter |-> requeueAfterOf(restore),
     err |-> IF requeueAfterOf(restore) > 0 THEN "" ELSE err]

sendResult(restore, err) ==
    [requeueAfter |-> requeueAfterOf(restore), err |-> err]

\* a spec with its RestoreSyncInterval
withSyncInterval(spec, interval) ==
    [f \in DOMAIN spec \cup {"restoreSyncInterval"} |->
        IF f = "restoreSyncInterval" THEN interval ELSE spec[f]]

\* the rows of Test_sendResults: the error given is nil in both
Test_sendResults ==
    {[spec |-> withSyncInterval(TestRestoreSpec(TRUE, CleanupTypeNone, skipRestoreStr,
                                                skipRestoreStr, skipRestoreStr),
                                15 * 60 * Second),
      phase |-> RestorePhaseEnabled, err |-> "", want |-> ""],
     [spec |-> withSyncInterval(TestRestoreSpec(TRUE, CleanupTypeNone, skipRestoreStr,
                                                skipRestoreStr, skipRestoreStr), 0),
      phase |-> RestorePhaseFinished, err |-> "", want |-> ""]}

\* the errors a cycle ends with ("": nil)
ReconcileErrors == {"", "could not update status", "list failed"}

SendResult ==
    /\ call = NoCall
    /\ \E spec \in HelperRestoreSpecs, phase \in RestorePhases,
          interval \in {0, 15 * 60 * Second}, err \in ReconcileErrors :
          LET restore == [spec |-> withSyncInterval(spec, interval),
                          status |-> [phase |-> phase]] IN
          call' = [fn |-> "sendResult", restore |-> restore, err |-> err,
                   out |-> sendResult(restore, err)]
    /\ HelperUnchanged

\* hours of the day of the test: the secrets were refreshed at fourHoursAgo
\* and expire at nextTenHours, on the next day
fourHoursAgo == 11
nextTenHours == 28
current == 15

localClusterName == "local-cluster"
\* the name of the secret that holds the token of a managed cluster
importAccountSecretName == "auto-import"

managedCluster(name, url, available) ==
    [name |-> name, url |-> url, available |-> available]

\* token: the value of the data key "token" ("": no such key)
secret(name, namespace, token, expiration) ==
    [name |-> name, namespace |-> namespace, token |-> token,
     lastRefreshTimestamp |-> fourHoursAgo, expirationTimestamp |-> expiration]

isFresh(s, currentTime) == currentTime < s.expirationTimestamp

\* a secret of any name beginning with auto-import is taken
postRestoreActivationAnyName(secrets, managedClusters, currentTime) ==
    {c.name : c \in {c \in managedClusters :
        /\ c.name # localClusterName
        /\ c.url # ""
        /\ ~c.available
        /\ \E s \in secrets :
              /\ s.namespace = c.name
              /\ HasPrefix(s.name, importAccountSecretName)
              /\ s.token # ""
              /\ isFresh(s, currentTime)}}

\* the names of the managed clusters that are imported again
postRestoreActivation(secrets, managedClusters, currentTime) ==
    {c.name : c \in {c \in managedClusters :
        /\ c.name # localClusterName
        /\ c.url # ""
        /\ ~c.available
        /\ \E s \in secrets :
              /\ s.namespace = c.name
              /\ s.name = importAccountSecretName
              /\ s.token # ""
              /\ isFresh(s, currentTime)}}

\* the rows of Test_postRestoreActivation
Test_postRestoreActivation ==
    LET clusters(url, available) ==
            {managedCluster(localClusterName, "", FALSE),
             managedCluster("test1", "", FALSE),
             managedCluster("managed1", url, available)}
        local == secret("auto-import", localClusterName, "", nextTenHours)
        managed1 == secret("auto-import", "managed1", "YWRtaW4=", nextTenHours)
    IN
    {[managedClusters |-> clusters("someurl", TRUE),
      secrets |-> {local, managed1}, want |-> {}],
     [managedClusters |-> clusters("", FALSE),
      secrets |-> {local, managed1,
                   secret("auto-import", "managed2", "", nextTenHours),
                   secret("auto-import-pair", "managed1", "YWRtaW4=", nextTenHours)},
      want |-> {}],
     [managedClusters |-> clusters("someurl", FALSE),
      secrets |-> {local, managed1}, want |-> {"managed1"}]}

ActivationClusterNames == {localClusterName, "managed1"}

\* none, or one secret of that name in that namespace
SecretChoices(name, namespace) ==
    {{}} \cup {{secret(name, namespace, token, expiration)} :
                  token \in {"", "YWRtaW4="},
                  expiration \in {fourHoursAgo, nextTenHours}}

ActivationSecrets ==
    {a \cup b \cup c \cup d :
        a \in SecretChoices("auto-import", localClusterName),
        b \in SecretChoices("auto-import-pair", localClusterName),
        c \in SecretChoices("auto-import", "managed1"),
        d \in SecretChoices("auto-import-pair", "managed1")}

ActivationClusters ==
    {{managedCluster(localClusterName, u1, a1), managedCluster("managed1", u2, a2)} :
        u1 \in {"", "someurl"}, a1 \in BOOLEAN, u2 \in {"", "someurl"}, a2 \in BOOLEAN}

PostRestoreActivation ==
    /\ call = NoCall
    /\ \E secrets \in ActivationSecrets, managedClusters \in ActivationClusters :
          call' = [fn |-> "postRestoreActivation", secrets |-> secrets,
                   managedClusters |-> managedClusters, currentTime |-> current,
                   out |-> postRestoreActivation(secrets, managedClusters, current)]
    /\ HelperUnchanged

RESTScopeNamespace == "namespace"
RESTScopeRoot == "root"

\* namespace "": the resource has none; excluded: it carries the label
\* velero.io/exclude-from-backup "true"
dynamicResource(namespace, excluded) ==
    [name |-> "channel-new", namespace |-> namespace, excludeFromBackup |-> excluded]

\* the namespace rules are applied whatever the scope
deleteDynamicResourceAnyScope(mapping, resource, excludedNamespaces) ==
    /\ ~(\/ resource.namespace = localClusterName
         \/ resource.namespace \in excludedNamespaces)
    /\ ~resource.excludeFromBackup

\* TRUE when the Delete is called for the resource
deleteDynamicResource(mapping, resource, excludedNamespaces) ==
    /\ ~(/\ mapping.scope = RESTScopeNamespace
         /\ \/ resource.namespace = localClusterName
            \/ resource.namespace \in excludedNamespaces)
    /\ ~resource.excludeFromBackup

\* the rows of Test_deleteDynamicResource
Test_deleteDynamicResource ==
    {[scope |-> RESTScopeNamespace, resource |-> dynamicResource("local-cluster", FALSE),
      excludedNamespaces |-> {"abc"}, want |-> FALSE],
     [scope |-> RESTScopeNamespace, resource |-> dynamicResource("default", FALSE),
      excludedNamespaces |-> {"abc"}, want |-> TRUE],
     [scope |-> RESTScopeNamespace, resource |-> dynamicResource("default", FALSE),
      excludedNamespaces |-> {"default"}, want |-> FALSE],
     [scope |-> RESTScopeNamespace, resource |-> dynamicResource("default", TRUE),
      excludedNamespaces |-> {"abc"}, want |-> FALSE],
     [scope |-> RESTScopeRoot, resource |-> dynamicResource("", FALSE),
      excludedNamespaces |-> {}, want |-> TRUE]}

DeleteDynamicResource ==
    /\ call = NoCall
    /\ \E scope \in {RESTScopeNamespace, RESTScopeRoot},
          namespace \in {"", localClusterName, "default", "abc"},
          excluded \in BOOLEAN, excludedNamespaces \in SUBSET {"default", "abc"} :
          LET mapping == [scope |-> scope]
              resource == dynamicResource(namespace, excluded) IN
          call' = [fn |-> "deleteDynamicResource", mapping |-> mapping,
                   resource |-> resource, excludedNamespaces |-> excludedNamespaces,
                   out |-> deleteDynamicResource(mapping, resource, excludedNamespaces)]
    /\ HelperUnchanged

\* every phase of a velero Restore
AllVeleroRestorePhases ==
    VeleroRestorePhases \cup {"PartiallyFailed", "FailedValidation"}

\* the rows of Test_isVeleroRestoreFinished
Test_isVeleroRestoreFinished ==
    {[restore |-> NilVeleroRestore, want |-> FALSE],
     [restore |-> [phase |-> "Completed"], want |-> TRUE],
     [restore |-> [phase |-> "InProgress"], want |-> FALSE]}

\* the rows of Test_isVeleroRestoreRunning
Test_isVeleroRestoreRunning ==
    {[restore |-> NilVeleroRestore, want |-> FALSE],
     [restore |-> [phase |-> "New"], want |-> TRUE],
     [restore |-> [phase |-> "Failed"], want |-> FALSE]}

\* both classifications of one velero Restore, or of none
ClassifyVeleroRestore ==
    /\ call = NoCall
    /\ \E restore \in {NilVeleroRestore} \cup
                       {[newVeleroRestore("Restore", "acm-resources-schedule-1",
                                          Resources) EXCEPT !.phase = p] :
                           p \in AllVeleroRestorePhases} :
          call' = [fn |-> "isVeleroRestoreFinished", restore |-> restore,
                   out |-> isVeleroRestoreFinished(restore),
                   running |-> isVeleroRestoreRunning(restore)]
    /\ HelperUnchanged

NextHelpers ==
    \/ ClassifyVeleroRestore
    \/ IsSkipAllRestores
    \/ IsValidSyncOptions
    \/ SetRestorePhase
    \/ SendResult
    \/ PostRestoreActivation
    \/ DeleteDynamicResource

SpecHelpers == InitHelpers /\ [][NextHelpers]_vars

\* the last helper call was a call of fn
CallOf(fn) == call # NoCall /\ call.fn = fn

\* C23: isSkipAllRestores is true exactly when each of the three backup names
\* is unset or "skip", hence false when one of them is "latest" or the name of
\* a backup; the rows of Test_isSkipAllRestores are among these cases.
C23_SkipAllIffNilOrSkip ==
    /\ CallOf("isSkipAllRestores") =>
          /\ call.out <=> \A key \in RestoreCategories :
                             specBackupName(call.restore.spec, key) \in {Nil, "skip"}
          /\ (\E key \in RestoreCategories :
                 specBackupName(call.restore.spec, key)
                    \in {"latest", "acm-managed-clusters-schedule-111"}) => ~call.out
    /\ \A tt \in Test_isSkipAllRestores : isSkipAllRestores([spec |-> tt.spec]) = tt.want

\* isSkipAllRestores was true for a Restore that leaves one name unset and
\* gives "skip" for another
C23_Witness ==
    /\ CallOf("isSkipAllRestores") /\ call.out
    /\ call.restore.spec.veleroManagedClustersBackupName = Nil
    /\ call.restore.spec.veleroResourcesBackupName = "skip"

\* C24: isValidSyncOptions is true exactly when sync is enabled, the cleanup
\* policy is All, the resources name is "latest", the credentials name is
\* "latest" or "skip" and no name is unset; the rows of
\* Test_isValidSyncOptions are among these cases.
C24_ValidSyncOptions ==
    /\ CallOf("isValidSyncOptions") =>
          (call.out <=>
             /\ call.restore.spec.syncRestoreWithNewBackups
             /\ call.restore.spec.cleanupBeforeRestore = CleanupTypeAll
             /\ specBackupName(call.restore.spec, Resources) = "latest"
             /\ specBackupName(call.restore.spec, Credentials) \in {"latest", "skip"}
             /\ \A key \in RestoreCategories :
                   specBackupName(call.restore.spec, key) # Nil)
    /\ \A tt \in Test_isValidSyncOptions : isValidSyncOptions([spec |-> tt.spec]) = tt.want

\* isValidSyncOptions was true for a Restore whose credentials name is "skip"
\* and whose managed clusters name is the name of a backup
C24_Witness ==
    /\ CallOf("isValidSyncOptions") /\ call.out
    /\ call.restore.spec.veleroCredentialsBackupName = "skip"
    /\ call.restore.spec.veleroManagedClustersBackupName \notin {Nil, "skip", "latest"}

\* C25: called with no velero Restore, setRestorePhase gives Finished when
\* isSkipAllRestores holds for the Restore and Started when it does not,
\* whatever phase the Restore had; the rows of Test_setRestorePhase are
\* among these cases.
C25_PhaseWithoutRestores ==
    /\ (CallOf("setRestorePhase") /\ Len(call.restoreList) = 0) =>
          call.out = IF isSkipAllRestores(call.restore) THEN "Finished" ELSE "Started"
    /\ \A tt \in Test_setRestorePhase :
          setRestorePhase(<<>>, [spec |-> tt.spec, status |-> [phase |-> tt.phase]])
             = tt.want

\* setRestorePhase gave Started for a Restore that was Finished and has no
\* velero Restore
C25_Witness ==
    /\ CallOf("setRestorePhase") /\ Len(call.restoreList) = 0
    /\ call.restore.status.phase = "Finished" /\ call.out = "Started"

\* C26: a restore cycle that ends without error and leaves the Restore
\* finished (RestoreComplete is True, reason RestoreReasonFinished) asks to
\* be run again after managedClusterImportInterval, 20 seconds.
C26_RequeueWhenFinished ==
    [][(RestoreCycle /\ rcycle'.err = ""
        /\ \E c \in ConditionsOf(rcycle'.conditions, RestoreComplete) :
              c.status = ConditionTrue /\ c.reason = RestoreReasonFinished)
       => rcycle'.requeueAfter = managedClusterImportInterval]_vars

\* C27: sendResult returns the error it was given, nil or not, for every
\* phase and every spec of the Restore; the rows of Test_sendResults, where
\* the error is nil, are among these cases.
C27_ErrorUnchanged ==
    /\ CallOf("sendResult") => call.out.err = call.err
    /\ \A tt \in Test_sendResults :
          sendResult([spec |-> tt.spec, status |-> [phase |-> tt.phase]], tt.err).err
             = tt.want

\* sendResult returned the error of a cycle together with a requeue
C27_Witness ==
    /\ CallOf("sendResult")
    /\ call.err = "list failed" /\ call.out.err = "list failed"
    /\ call.out.requeueAfter = managedClusterImportInterval

\* the secrets of a namespace that carry a token under the reserved name
TokenSecrets(namespace) ==
    {s \in call.secrets : /\ s.namespace = namespace
                          /\ s.name = "auto-import"
                          /\ s.token # ""}

\* C28: the result of postRestoreActivation names a managed cluster only if
\* it is not local-cluster, has a URL, is not available and its namespace
\* holds a secret named auto-import with a non-empty token; a managed cluster
\* with all of these whose secret is fresh is named; the result is the same
\* without the secrets of any other name; the rows of
\* Test_postRestoreActivation are among these cases.
C28_ActivatedClusters ==
    /\ CallOf("postRestoreActivation") =>
          /\ \A n \in call.out :
                /\ n # "local-cluster"
                /\ \E c \in call.managedClusters :
                      c.name = n /\ c.url # "" /\ ~c.available
                /\ TokenSecrets(n) # {}
          /\ \A c \in call.managedClusters :
                (/\ c.name # "local-cluster" /\ c.url # "" /\ ~c.available
                 /\ \E s \in TokenSecrets(c.name) :
                       call.currentTime < s.expirationTimestamp)
                => c.name \in call.out
          /\ call.out = postRestoreActivation(
                           {s \in call.secrets : s.name = "auto-import"},
                           call.managedClusters, call.currentTime)
    /\ \A tt \in Test_postRestoreActivation :
          postRestoreActivation(tt.secrets, tt.managedClusters, current) = tt.want

\* managed1 is imported again while local-cluster, in the same condition and
\* with the same secret, is not
C28_Witness ==
    /\ CallOf("postRestoreActivation")
    /\ call.out = {"managed1"}
    /\ \E c \in call.managedClusters :
          c.name = "local-cluster" /\ c.url # "" /\ ~c.available
    /\ \E s \in TokenSecrets("local-cluster") : call.currentTime < s.expirationTimestamp
    /\ \E s \in call.secrets : s.namespace = "managed1" /\ s.name = "auto-import-pair"

\* C29: for a namespaced resource deleteDynamicResource calls no Delete if
\* and only if the namespace of the resource is local-cluster, or is one of
\* the excluded namespaces, or the resource carries the label
\* velero.io/exclude-from-backup; for a cluster-scoped resource neither the
\* namespace nor the excluded namespaces keep the Delete from being called;
\* the rows of Test_deleteDynamicResource are among these cases.
C29_DeletionSuppressed ==
    /\ (CallOf("deleteDynamicResource") /\ call.mapping.scope = "namespace") =>
          (~call.out <=> \/ call.resource.namespace = "local-cluster"
                         \/ call.resource.namespace \in call.excludedNamespaces
                         \/ call.resource.excludeFromBackup)
    /\ (CallOf("deleteDynamicResource") /\ call.mapping.scope = "root"
        /\ ~call.resource.excludeFromBackup) => call.out
    /\ \A tt \in Test_deleteDynamicResource :
          deleteDynamicResource([scope |-> tt.scope], tt.resource, tt.excludedNamespaces)
             = tt.want

\* the Delete was called for a cluster-scoped resource whose namespace is
\* among the excluded ones
C29_Witness ==
    /\ CallOf("deleteDynamicResource") /\ call.mapping.scope = "root"
    /\ call.resource.namespace \in call.excludedNamespaces
    /\ call.out

\* the cron expression of BackupSchedule n is not empty and makes
\* cron.ParseStandard panic
CronPanics(n) ==
    LET c == backupSchedules[n].spec.veleroSchedule IN
    Len(c) > 0 /\ cronParseStandard(c).kind = "panic"

\* C30: a cycle over a non-empty cron expression on which the parser panics
\* returns from validation: it ends with phase FailedValidation and a
\* message beginning with "invalid schedule", calls no Create and no Delete,
\* leaves the velero Schedules as they were, and returns no error but that
\* of a failed status write.
C30_ParserPanicCaught ==
    [][\A n \in DOMAIN backupSchedules :
          (ReadResource(n) /\ CronPanics(n)) =>
             /\ cycle'.branch = "validation"
             /\ cycle'.phase = SchedulePhaseFailedValidation
             /\ HasPrefix(cycle'.lastMessage, "invalid schedule")
             /\ cycle'.calls.created = 0 /\ cycle'.calls.deleted = 0
             /\ veleroSchedules' = veleroSchedules
             /\ cycle'.err = (IF cycle'.wrote THEN "" ELSE statusUpdateErr(FALSE))
             /\ cycle'.wrote =>
                   backupSchedules'[n].status.phase = SchedulePhaseFailedValidation]_vars

\* a cycle has caught the panic of the parser and persisted the failed
\* validation
C30_Witness ==
    /\ cycle.branch = "validation" /\ cycle.wrote
    /\ cycle.lastMessage = "invalid schedule: slice bounds out of range"
    /\ \E n \in DOMAIN backupSchedules :
          /\ n = cycle.name
          /\ backupSchedules[n].spec.veleroSchedule = "TZ=UTC"
          /\ backupSchedules[n].status.phase = SchedulePhaseFailedValidation

(***************************************************************************)
(* The restore orchestrator resumed: a Restore that names a backup for     *)
(* every resource type, over a namespace where the backup of               *)
(* the resources schedule may still be missing and is made later; a Create *)
(* may fail, and requests whose calls all succeed keep being served.       *)
(***************************************************************************)
ResumeRestoreSpecs ==
    [veleroManagedClustersBackupName : {scheduledBackup(ManagedClusters)},
     veleroCredentialsBackupName : {scheduledBackup(Credentials),
                                    veleroScheduleNames[Credentials] \o "-2"},
     veleroResourcesBackupName : {scheduledBackup(Resources)}]

InitResume ==
    InitRestoreOf({"restore-acm"}, ResumeRestoreSpecs, RestoreBackupListings \ {<<>>})

\* the resources schedule produces the backup the namespace lacked
BackupCompleted ==
    /\ \A i \in DOMAIN veleroBackups : veleroBackups[i].name # scheduledBackup(Resources)
    /\ veleroBackups' = Append(veleroBackups, veleroBackup(scheduledBackup(Resources), 1, 0))
    /\ rcycle' = NoCycle
    /\ UNCHANGED <<backupSchedules, veleroSchedules, cycle, coll, sel, acmRestore,
                   veleroRestores, call>>

NextResume ==
    \/ RestoreReconcileOk
    \/ RestoreReconcileCreateFails
    \/ BackupCompleted
    \/ VeleroRestoreSetPhase({"Completed"})

SpecResume ==
    /\ InitResume /\ [][NextResume]_vars
    /\ WF_vars(RestoreReconcileOk) /\ WF_vars(BackupCompleted)

\* the resource types of the Restore that own a velero Restore
RestoredCategories ==
    {key \in RestoreCategories : RestoresOf(veleroRestores, key) # {}}

\* some resource types own a velero Restore and some do not
PartiallyRestored ==
    RestoredCategories # {} /\ RestoredCategories # RestoreCategories

\* C31: when a cycle has left velero Restores for some resource types only,
\* a Create having failed or a backup being missing, the cycles that follow
\* the backup being made, all of whose calls succeed, eventually leave a
\* velero Restore for every resource type.
C31_MissingRestoreCreatedLater ==
    PartiallyRestored ~> (RestoredCategories = RestoreCategories)

\* the status field of a resource type
statusRestoreName(status, key) ==
    CASE key = ManagedClusters -> status.veleroManagedClustersRestoreName
      [] key = Credentials -> status.veleroCredentialsRestoreName
      [] key = Resources -> status.veleroResourcesRestoreName

\* C32: after a cycle that has read the Restore and returns no error, the
\* persisted status field of every resource type that owns a velero Restore
\* holds the name of that velero Restore, which is the name of the Restore,
\* a dash and the name of its backup, and the status field of a resource
\* type that owns none is empty.
C32_RestoreNamesRecorded ==
    [][(RestoreCycle /\ rcycle'.branch # "get" /\ rcycle'.err = "") =>
          \A key \in RestoreCategories :
             LET owned == RestoresOf(veleroRestores', key) IN
             /\ owned # {} =>
                   \E o \in owned :
                      /\ statusRestoreName(acmRestore'.status, key) = o.name
                      /\ o.name = acmRestore.name \o "-" \o o.backupName
             /\ owned = {} => statusRestoreName(acmRestore'.status, key) = ""]_vars

(***************************************************************************)
(* Both orchestrators in one namespace: a BackupSchedule and a Restore are *)
(* reconciled, a List or a Delete may fail, and an operator edits the cron *)
(* expression.                                                             *)
(***************************************************************************)
InitBoth ==
    /\ backupSchedules \in
          [{ScheduleName} ->
              [spec : BackupScheduleSpecs(ValidCrons, {0}), status : {EmptyStatus}]]
    /\ veleroSchedules = {}
    /\ cycle = NoCycle
    /\ coll = NoCall
    /\ sel = NoCall
    /\ acmRestore = [name |-> "restore-acm",
                     spec |-> [veleroManagedClustersBackupName |->
                                  scheduledBackup(ManagedClusters),
                               veleroCredentialsBackupName |->
                                  scheduledBackup(Credentials),
                               veleroResourcesBackupName |->
                                  scheduledBackup(Resources)],
                     status |-> EmptyRestoreStatus]
    /\ veleroRestores = {}
    /\ veleroBackups \in {b \in RestoreBackupListings : Len(b) = 5}
    /\ rcycle = NoCycle
    /\ call = NoCall

\* a Reconcile in which the List fails, or the Delete of a drifted velero
\* Schedule fails, and every other call succeeds
ReconcileListOrDeleteFails(n) ==
    \/ ReconcileWith(n, {in \in reconcileInputs(n) : in[1] /\ ~in[2]})
    \/ /\ ownedBy(veleroSchedules, n) # {}
       /\ ReconcileWith(n, {in \in reconcileInputs(n) :
                               in[1] /\ in[2] /\ in[3] /\ in[6] > 0})

\* a Reconcile request of the Restore in which the List fails
RestoreReconcileListFails ==
    RestoreReconcileWith({in \in restoreReconcileInputs : in[1] = "ok" /\ ~in[2]})

NextBoth ==
    \/ ReconcileOk(ScheduleName)
    \/ ReconcileListOrDeleteFails(ScheduleName)
    \/ EditCron(ScheduleName, ValidCrons)
    \/ RestoreReconcileOk
    \/ RestoreReconcileListFails

SpecBoth == InitBoth /\ [][NextBoth]_vars

\* the Delete of a drifted velero Schedule failed in the cycle
DeleteFailed == cycle'.branch = "drift" /\ "delete" \in cycle'.calls.failed

\* C33: a cycle of the schedule orchestrator in which the List of the owned
\* velero Schedules fails, or the Delete of a drifted one fails, and a cycle
\* of the restore orchestrator in which the List of the owned velero Restores
\* fails, return an error and write no status: the persisted status is the
\* one before the cycle.
C33_StatusKeptOnListOrDeleteError ==
    [][/\ \A n \in DOMAIN backupSchedules :
             (CycleOf(n) /\ (cycle'.branch = "list" \/ DeleteFailed)) =>
                /\ cycle'.err # "" /\ ~cycle'.wrote
                /\ backupSchedules'[n].status = backupSchedules[n].status
       /\ (RestoreCycle /\ rcycle'.branch = "list") =>
             /\ rcycle'.err # "" /\ ~rcycle'.wrote
             /\ acmRestore'.status = acmRestore.status]_vars

\* the Delete of a drifted velero Schedule has failed and so has the List of
\* the velero Restores, each over a status an earlier cycle has written
C33_Witness ==
    /\ cycle.branch = "drift" /\ "delete" \in cycle.calls.failed /\ cycle.err # ""
    /\ backupSchedules[ScheduleName].status.phase = SchedulePhaseNew
    /\ rcycle.branch = "list" /\ rcycle.err # ""
    /\ acmRestore.status.veleroResourcesRestoreName # ""

\* C34: a cycle over existing velero Restores of which at least one is
\* running sets the condition RestoreStarted to True, in whatever order the
\* velero Restores are listed and whatever the phases of the others.
C34_StartedWhileOneRuns ==
    [][(RestoreCycle /\ rcycle'.branch = "status"
        /\ \E o \in ownedBy(veleroRestores, acmRestore.name) : isVeleroRestoreRunning(o))
       => \E c \in ConditionsOf(rcycle'.conditions, RestoreStarted) :
             c.status = ConditionTrue]_vars

\* the velero Restore classified has phase p
ClassifiedPhase(p) ==
    /\ CallOf("isVeleroRestoreFinished")
    /\ call.restore # NilVeleroRestore
    /\ call.restore.phase = p

\* C35: no velero Restore, and none at all, is classified both finished and
\* running by isVeleroRestoreFinished and isVeleroRestoreRunning: none is
\* neither, New is running and not finished, InProgress is not finished,
\* Completed is finished and Failed is not running; the rows of both tests
\* are among these cases.
C35_FinishedAndRunningExclusive ==
    /\ CallOf("isVeleroRestoreFinished") =>
          /\ ~(call.out /\ call.running)
          /\ call.restore = NilVeleroRestore => ~call.out /\ ~call.running
    /\ ClassifiedPhase("New") => call.running /\ ~call.out
    /\ ClassifiedPhase("InProgress") => ~call.out
    /\ ClassifiedPhase("Completed") => call.out
    /\ ClassifiedPhase("Failed") => ~call.running
    /\ \A tt \in Test_isVeleroRestoreFinished :
          isVeleroRestoreFinished(tt.restore) = tt.want
    /\ \A tt \in Test_isVeleroRestoreRunning :
          isVeleroRestoreRunning(tt.restore) = tt.want

\* a failed velero Restore was classified finished and not running
C35_Witness ==
    ClassifiedPhase("Failed") /\ call.out /\ ~call.running

\* C36: a cycle that sets the phase of a BackupSchedule to Enabled has
\* observed an owned velero Schedule for each of the three resource types,
\* every one of them in the phase Enabled.
C36_EnabledMeansAllEnabled ==
    [][\A n \in DOMAIN backupSchedules :
          (CycleOf(n) /\ cycle'.branch = "steady"
           /\ cycle'.phase = SchedulePhaseEnabled) =>
             /\ AllOwned(n)
             /\ \A o \in ownedBy(veleroSchedules, n) : o.phase = "Enabled"]_vars

(***************************************************************************)
(* The schedule orchestrator until its schedules are enabled: one valid    *)
(* spec that no operator edits, calls that may fail, an engine that moves  *)
(* the velero Schedules between New and Enabled, and the collision check.  *)
(* Reconcile returns RequeueAfter or an error on every path taken here, so *)
(* the cycles whose calls succeed keep being taken.                        *)
(***************************************************************************)
InitEnable == InitSchedule({"0 * * * *"}, {0})

NextEnable ==
    \/ Reconcile(ScheduleName)
    \/ VeleroSetPhase({"New", "Enabled"})
    \/ CheckCollision(ScheduleName)

SpecEnable ==
    InitEnable /\ [][NextEnable]_vars /\ WF_vars(ReconcileOk(ScheduleName))

\* every resource type has an owned velero Schedule and every owned velero
\* Schedule is in the phase Enabled
AllEnabled(n) ==
    /\ AllOwned(n)
    /\ \A o \in ownedBy(veleroSchedules, n) : o.phase = "Enabled"

\* C37: when from some point on the three owned velero Schedules are all
\* Enabled and the phase of the BackupSchedule is not BackupCollision, the
\* spec being valid and unchanged, the cycles that are taken again and again
\* bring the phase of the BackupSchedule to Enabled, where it stays.
C37_EventuallyEnabled ==
    <>[](/\ AllEnabled(ScheduleName)
         /\ backupSchedules[ScheduleName].status.phase # SchedulePhaseBackupCollision)
    => <>[](backupSchedules[ScheduleName].status.phase = SchedulePhaseEnabled)

\* a cycle over three enabled velero Schedules has persisted the phase
\* Enabled over the phase New
C37_Witness ==
    /\ AllEnabled(ScheduleName)
    /\ cycle.branch = "steady" /\ cycle.wrote
    /\ backupSchedules[ScheduleName].status.phase = SchedulePhaseEnabled

\* C38: a cycle that sets the condition RestoreComplete to True finds no
\* owned velero Restore running and none that velero has not yet started.
C38_CompleteMeansNoneRunning ==
    [][(RestoreCycle /\ rcycle'.branch = "status"
        /\ (\E c \in ConditionsOf(rcycle'.conditions, RestoreComplete) :
               c.status = ConditionTrue)
        /\ ConditionsOf(rcycle'.conditions, RestoreComplete)
              # ConditionsOf(acmRestore.status.conditions, RestoreComplete))
       => \A o \in ownedBy(veleroRestores, acmRestore.name) :
             isVeleroRestoreFinished(o)]_vars

\* C39: the velero Schedules owned by one BackupSchedule all carry the same
\* cron expression, in every state reached by cycles with any failing call,
\* edits of the spec and the engine setting phases.
C39_OwnedSchedulesShareCron ==
    \A n \in DOMAIN backupSchedules :
       \A o1, o2 \in ownedBy(veleroSchedules, n) : o1.schedule = o2.schedule

\* a Delete has failed after another had succeeded: some velero Schedules
\* of the older spec are left, while the spec has a newer cron expression
C39_Witness ==
    /\ cycle.branch = "drift" /\ "delete" \in cycle.calls.failed
    /\ cycle.calls.deleted > 0
    /\ \E o \in ownedBy(veleroSchedules, cycle.name) :
          o.schedule # backupSchedules[cycle.name].spec.veleroSchedule

\* ---- schedule.go: updateSecretsLabels, updateSecret ----

\* the three label names that mark a Secret for backup
backupCredsHiveLabel == "backupCredsHiveLabel"
backupCredsUserLabel == "backupCredsUserLabel"
backupCredsClusterLabel == "backupCredsClusterLabel"

BackupCredsLabels ==
    {backupCredsHiveLabel, backupCredsUserLabel, backupCredsClusterLabel}

\* labels[key] of a Go map: the empty string for a key the map does not hold
labelOf(labels, key) == IF key \in DOMAIN labels THEN labels[key] ELSE ""

\* labels[key] = value
setLabel(labels, key, value) ==
    [k \in DOMAIN labels \cup {key} |-> IF k = key THEN value ELSE labels[k]]

\* delete(labels, key)
deleteLabel(labels, key) == [k \in DOMAIN labels \ {key} |-> labels[k]]

\* the Secret that the cluster holds after updateSecret; updateOk is the
\* outcome of c.Update
updateSecret(item, labelName, labelValue, updateOk) ==
    IF /\ labelOf(item.labels, backupCredsHiveLabel) = ""
       /\ labelOf(item.labels, backupCredsUserLabel) = ""
       /\ labelOf(item.labels, backupCredsClusterLabel) = ""
       /\ updateOk
    THEN [item EXCEPT !.labels = setLabel(item.labels, labelName, labelValue)]
    ELSE item

\* the Secrets that the cluster holds after updateSecretsLabels; updateOk[s]
\* is the outcome of the c.Update of the Secret at index s
updateSecretsLabels(secrets, prefix, labelName, labelValue, updateOk) ==
    [s \in DOMAIN secrets |->
        LET item == secrets[s] IN
        IF item.name = item.namespace \o <<"-import">>
        THEN IF labelOf(item.labels, labelName) = labelValue /\ updateOk[s]
             THEN [item EXCEPT !.labels = deleteLabel(item.labels, labelName)]
             ELSE item
        ELSE IF HasPrefix(item.name, prefix)
                /\ ~Contains(item.name, <<"-bootstrap-">>)
        THEN updateSecret(item, labelName, labelValue, updateOk[s])
        ELSE item]

\* a name is a sequence of segments
SecretsNamespace == <<"managed1">>

\* the names of a cluster deployment and of a cluster pool of the namespace
SecretPrefixes == {SecretsNamespace, <<"pool1">>}

SecretNames ==
    {SecretsNamespace \o <<"-import">>,
     SecretsNamespace \o <<"-bootstrap-", "sa">>,
     SecretsNamespace \o <<"-admin-password">>,
     <<"pool1", "-pull-secret">>,
     <<"aws-creds">>}

NoLabel == "<none>"

\* a label is absent, or present with the empty value, with the value that
\* prepareForBackup gives, or with another value
SecretLabels ==
    {[k \in {l \in BackupCredsLabels : g[l] # NoLabel} |-> g[k]] :
        g \in [BackupCredsLabels -> {NoLabel, "", "clusterpool", "agent-install"}]}

SecretsOf(names, labels) ==
    {[name |-> n, namespace |-> SecretsNamespace, labels |-> l] :
        n \in names, l \in labels}

\* a list of one Secret, or the import Secret followed by one Secret
SecretLists ==
    {<<s>> : s \in SecretsOf(SecretNames, SecretLabels)}
    \cup {<<i, s>> :
            i \in SecretsOf({SecretsNamespace \o <<"-import">>},
                            {<<>>, [k \in {backupCredsClusterLabel} |-> "clusterpool"]}),
            s \in SecretsOf(SecretNames \ {SecretsNamespace \o <<"-import">>},
                            SecretLabels)}

UpdateSecretsLabels ==
    /\ call = NoCall
    /\ \E secrets \in SecretLists, prefix \in SecretPrefixes :
       \E updateOk \in [DOMAIN secrets -> BOOLEAN] :
          call' = [fn |-> "updateSecretsLabels", secrets |-> secrets,
                   prefix |-> prefix, labelName |-> backupCredsClusterLabel,
                   labelValue |-> "clusterpool", updateOk |-> updateOk,
                   out |-> updateSecretsLabels(secrets, prefix,
                              backupCredsClusterLabel, "clusterpool", updateOk)]
    /\ HelperUnchanged

NextSecrets == UpdateSecretsLabels

SpecSecrets == InitHelpers /\ [][NextSecrets]_vars

\* the last call was updateSecretsLabels and each of its updates succeeded
SecretsUpdated ==
    /\ CallOf("updateSecretsLabels")
    /\ \A s \in DOMAIN call.secrets : call.updateOk[s]

\* the import Secret at index s does not receive the label, and loses it when
\* it carried it with the given value
ImportSecretUnlabelled(s) ==
    /\ call.labelName \notin DOMAIN call.secrets[s].labels
          => call.labelName \notin DOMAIN call.out[s].labels
    /\ labelOf(call.out[s].labels, call.labelName) = call.labelValue
          => labelOf(call.secrets[s].labels, call.labelName) = call.labelValue
    /\ (call.labelName \in DOMAIN call.secrets[s].labels
        /\ call.secrets[s].labels[call.labelName] = call.labelValue)
          => call.labelName \notin DOMAIN call.out[s].labels

\* the Secret at index s carries the label after the call and did not before
NewlyLabelled(s) ==
    /\ call.labelName \notin DOMAIN call.secrets[s].labels
    /\ call.labelName \in DOMAIN call.out[s].labels

\* C40: when the updates of updateSecretsLabels succeed, a Secret named
\* <namespace>-import never receives the backup label and loses it if it
\* carried it with the given value, whatever the prefix; and a Secret is newly
\* labelled only if its name starts with the prefix, does not contain
\* "-bootstrap-", and it carries none of the three backup labels beforehand.
C40_ImportExcludedAndOnlyUnlabelledLabelled ==
    SecretsUpdated =>
        \A s \in DOMAIN call.secrets :
            /\ call.secrets[s].name = call.secrets[s].namespace \o <<"-import">>
                  => ImportSecretUnlabelled(s)
            /\ NewlyLabelled(s) =>
                  /\ HasPrefix(call.secrets[s].name, call.prefix)
                  /\ ~Contains(call.secrets[s].name, <<"-bootstrap-">>)
                  /\ DOMAIN call.secrets[s].labels \cap BackupCredsLabels = {}

\* the same with a label of empty value counted as not carried
C40_OnlyEmptyLabelledLabelled ==
    SecretsUpdated =>
        \A s \in DOMAIN call.secrets :
            /\ call.secrets[s].name = call.secrets[s].namespace \o <<"-import">>
                  => ImportSecretUnlabelled(s)
            /\ NewlyLabelled(s) =>
                  /\ HasPrefix(call.secrets[s].name, call.prefix)
                  /\ ~Contains(call.secrets[s].name, <<"-bootstrap-">>)
                  /\ \A l \in BackupCredsLabels :
                        labelOf(call.secrets[s].labels, l) = ""

\* a Secret that follows the import Secret is newly labelled
C40_Witness ==
    /\ SecretsUpdated
    /\ Len(call.secrets) = 2
    /\ NewlyLabelled(2)
    /\ call.secrets[1].labels # call.out[1].labels


============================================================================
